---- MODULE Spec2Model ----
(***************************************************************************)
(* Risk-gated execution pipeline of the flashloan arbitrage bot and its    *)
(* settlement contract:                                                    *)
(*   RiskManager        (src/src/RiskManager.js)                           *)
(*   ArbitrageExecutor  (src/src/utils/dex-helpers.js, second half)        *)
(*   ProfitCalculator   (src/src/ProfitCalculator.js)                      *)
(*   FlashloanArbitrageBot (src/src/monitor.js)                            *)
(*   DexPriceFetcher    (src/src/MultiChainManager.js)                     *)
(*   PriceOracle        (src/unnamed/part_002)                             *)
(*   MultiChainArbitrageBot (src/src/ProfitCalculator.js, second half)     *)
(*   FlashloanArbitrage (src/contracts/FlashloanArbitrage.sol)             *)
(*                                                                         *)
(* Units.  The JavaScript works on floating point numbers; the model uses  *)
(* integers in fixed units so that every comparison of the source is an    *)
(* exact integer comparison:                                               *)
(*   time                 milliseconds (Date.now())                        *)
(*   ETH amounts          milli-ETH                                        *)
(*   percentages/margins  basis points (1/100 of a percent)                *)
(*   gas prices           gwei                                             *)
(* The price oracle and the profit calculator use finer units, given at    *)
(* their definitions.                                                      *)
(***************************************************************************)
EXTENDS Integers, Sequences, FiniteSets, TLC

VARIABLES
    now,                        \* Date.now()
    \* ---- RiskManager ----
    emergencyStop,              \* this.config.emergencyStop
    dailyStats,                 \* this.dailyStats
    circuitBreakerActive,       \* this.circuitBreakerActive
    circuitBreakerActivatedAt,  \* this.circuitBreakerActivatedAt
    positionHistory,            \* this.positionHistory (success flag of each record)
    nextResetAt,                \* due time of the daily-reset timer
    asmt,                       \* the assessOpportunityRisk call in flight / last returned
    \* ---- ArbitrageExecutor ----
    isExecuting,                \* this.isExecuting
    lastExecutionTime,          \* this.lastExecutionTime
    executionHistory,           \* this.executionHistory (success flag of each record)
    req,                        \* the executeArbitrage calls: position, arguments, result
    calls,                      \* number of executeArbitrage calls made so far
    lastSubmitAt,               \* history: when contract.requestFlashLoan was last called
    \* ---- FlashloanArbitrageBot (monitor.js) ----
    botLastExecutionTime,       \* this.lastExecutionTime
    scans,                      \* the running callbacks of the scan interval
    scanCount,                  \* number of scans started so far
    submissions,                \* history: times of the requestFlashLoan calls
    demoMode,                   \* CONFIG.DEMO_MODE
    \* ---- DexPriceFetcher ----
    quotes,                     \* per venue: the fetchPrice promise of the scan
    finder,                     \* the find...ArbitrageOpportunity call
    priceCache,                 \* this.priceCache, per cache key
    cachedDex,                  \* history: per cache key, the venue whose call set the entry
    fetches,                    \* the fetchPrice calls
    fetchCount,                 \* number of fetchPrice calls made so far
    venueQueries,               \* history: number of queries sent to the venue
    \* ---- PriceOracle ----
    oracleCache,                \* this.priceCache, per symbol
    oracleCall,                 \* the getPrice call
    \* ---- ProfitCalculator ----
    profitCall,                 \* the calculateArbitrageProfitability call
    \* ---- two assessments side by side ----
    cmp,                        \* a pair of assessments made in the same state
    \* ---- MultiChainArbitrageBot ----
    isRunning,                  \* this.isRunning
    startCalls,                 \* start() calls awaiting startMultiChainMonitoring
    scanTimers,                 \* the intervals startArbitrageScanning created
    statusTimers,               \* number of intervals startStatusReporting created
    botCalls,                   \* number of start() and stop() calls made so far
    \* ---- FlashloanArbitrage (contract) ----
    dexInfo,                    \* mapping dexInfo
    activeDEXs,                 \* array activeDEXs
    priceFeeds,                 \* mapping priceFeeds
    tokenBalance,               \* per token: balanceOf(address(this))
    ethBalance,                 \* address(this).balance
    lastTx,                     \* history: the last transaction sent and how it ended
    txCount                     \* number of transactions sent so far

riskVars == <<emergencyStop, dailyStats, circuitBreakerActive,
              circuitBreakerActivatedAt, positionHistory, nextResetAt, asmt>>

execVars == <<isExecuting, lastExecutionTime, executionHistory, req, calls,
              lastSubmitAt>>

botVars == <<botLastExecutionTime, scans, scanCount, submissions, demoMode>>

finderVars == <<quotes, finder>>

cacheVars == <<priceCache, cachedDex, fetches, fetchCount, venueQueries>>

oracleVars == <<oracleCache, oracleCall>>

pricingVars == <<cacheVars, oracleVars, profitCall, cmp>>

coreVars == <<riskVars, execVars, botVars, finderVars>>

multiVars == <<isRunning, startCalls, scanTimers, statusTimers, botCalls>>

contractVars == <<dexInfo, activeDEXs, priceFeeds, tokenBalance, ethBalance,
                  lastTx, txCount>>

chainVars == <<multiVars, contractVars>>

vars == <<now, riskVars, execVars, botVars, finderVars, pricingVars, chainVars>>

\* JavaScript null / a rejected promise, kept apart from every number of the model
Null == 0 - 1

\* ---- bounds of the model ----
StartTime == 1000000            \* Date.now() at construction
RiskHorizon == 300000           \* the clock stops this long after StartTime
MaxTrades == 4                  \* recordTradeResult calls explored

\* ---- RiskManager configuration (defaults of the constructor) ----
maxPositionSizeETH == 10000     \* 10 ETH
maxDailyLossETH == 5000         \* 5 ETH
maxSlippagePercent == 300       \* 3 %
minProfitMargin == 50           \* 0.5 %
maxGasPriceGwei == 100
circuitBreakerThreshold == 3
cooldownPeriod == 300000
maxHistorySize == 1000
ApprovalCeiling == 70
DayMs == 86400000

Min(a, b) == IF a < b THEN a ELSE b
Max(a, b) == IF a > b THEN a ELSE b
Abs(a) == IF a < 0 THEN 0 - a ELSE a

Factor(f, s) == [factor |-> f, severity |-> s]

CountSeverity(fs, s) == Cardinality({i \in 1..Len(fs) : fs[i].severity = s})

HasFactor(fs, f) == \E i \in 1..Len(fs) : fs[i].factor = f

\* Last n entries of a sequence: Array.prototype.slice(-n)
SliceLast(s, n) == IF Len(s) > n THEN SubSeq(s, Len(s) - n + 1, Len(s)) ELSE s

FreshDailyStats(t) ==
    [totalProfitETH |-> 0, totalLossETH |-> 0, netProfitETH |-> 0,
     executedTrades |-> 0, failedTrades |-> 0, consecutiveFailures |-> 0,
     lastResetTime |-> t]

\* A risk assessment under construction or returned.  pc: "idle" (no call
\* yet), "gas" (suspended in provider.getGasPrice()), "done" (returned).
\* call tells one call from the next: it alternates between 0 and 1.
NewAssessment(np, call, t) ==
    [pc |-> "idle", riskScore |-> 0, riskFactors |-> <<>>, approved |-> FALSE,
     positionSize |-> 0, maxSlippage |-> 0, netProfitETH |-> np, call |-> call,
     timestamp |-> t]

----
\* RiskManager.assessProfitMarginRisk
assessProfitMarginRisk(ra, profitMargin) ==
    IF profitMargin < minProfitMargin
    THEN [ra EXCEPT !.riskFactors = Append(@, Factor("low_profit_margin", "high")),
                    !.riskScore = @ + 30]
    ELSE IF profitMargin < minProfitMargin * 2
    THEN [ra EXCEPT !.riskFactors = Append(@, Factor("marginal_profit", "medium")),
                    !.riskScore = @ + 15]
    ELSE ra

\* Variant: the limit test the wrong way round
assessPositionSizeRisk_below(ra, amountETH) ==
    IF amountETH < maxPositionSizeETH
    THEN [ra EXCEPT !.riskFactors = Append(@, Factor("position_too_large", "high")),
                    !.riskScore = @ + 25,
                    !.positionSize = maxPositionSizeETH]
    ELSE [ra EXCEPT !.positionSize = amountETH]

\* RiskManager.assessPositionSizeRisk
assessPositionSizeRisk(ra, amountETH) ==
    IF amountETH > maxPositionSizeETH
    THEN [ra EXCEPT !.riskFactors = Append(@, Factor("position_too_large", "high")),
                    !.riskScore = @ + 25,
                    !.positionSize = maxPositionSizeETH]
    ELSE [ra EXCEPT !.positionSize = amountETH]

\* RiskManager.calculatePriceImpact: Math.max(0.1, profitPercentage * 0.1)
calculatePriceImpact(profitPercentage) == Max(10, profitPercentage \div 10)

\* RiskManager.assessSlippageRisk
assessSlippageRisk(ra, profitPercentage) ==
    LET priceImpact == calculatePriceImpact(profitPercentage)
        slip == Min(Max((priceImpact * 3) \div 2, 50), maxSlippagePercent)
    IN IF priceImpact > maxSlippagePercent
       THEN [ra EXCEPT !.riskFactors = Append(@, Factor("high_slippage", "high")),
                       !.riskScore = @ + 20,
                       !.maxSlippage = slip]
       ELSE [ra EXCEPT !.maxSlippage = slip]

\* RiskManager.assessGasPriceRisk; gas = Null when provider.getGasPrice() throws
assessGasPriceRisk(ra, gas) ==
    IF gas # Null /\ gas > maxGasPriceGwei
    THEN [ra EXCEPT !.riskFactors = Append(@, Factor("high_gas_price", "medium")),
                    !.riskScore = @ + 15]
    ELSE ra

\* Variant: the loss the opportunity would make left out of the projection
assessDailyLossRisk_realized(ra, stats) ==
    IF stats.totalLossETH > maxDailyLossETH
    THEN [ra EXCEPT !.riskFactors = Append(@, Factor("daily_loss_limit", "critical")),
                    !.riskScore = @ + 40]
    ELSE ra

\* RiskManager.assessDailyLossRisk
assessDailyLossRisk(ra, stats) ==
    LET potentialLoss == Abs(Min(ra.netProfitETH, 0))
        projectedDailyLoss == stats.totalLossETH + potentialLoss
    IN IF projectedDailyLoss > maxDailyLossETH
       THEN [ra EXCEPT !.riskFactors = Append(@, Factor("daily_loss_limit", "critical")),
                       !.riskScore = @ + 40]
       ELSE ra

\* RiskManager.assessMarketConditions
assessMarketConditions(ra, stats) ==
    IF stats.consecutiveFailures >= circuitBreakerThreshold - 1
    THEN [ra EXCEPT !.riskFactors = Append(@, Factor("high_failure_rate", "high")),
                    !.riskScore = @ + 25]
    ELSE ra

\* RiskManager.calculateFinalRiskScore
calculateFinalRiskScore(ra) ==
    LET criticalFactors == CountSeverity(ra.riskFactors, "critical")
        highFactors == CountSeverity(ra.riskFactors, "high")
        s1 == IF criticalFactors > 0 THEN ra.riskScore + criticalFactors * 20
              ELSE ra.riskScore
        s2 == IF highFactors > 1 THEN s1 + (highFactors - 1) * 10 ELSE s1
    IN [ra EXCEPT !.riskScore = Min(s2, 100)]

\* Variant: the score test written >= instead of >
makeFinalApprovalDecision_ge(ra) ==
    IF CountSeverity(ra.riskFactors, "critical") > 0
    THEN [ra EXCEPT !.approved = FALSE]
    ELSE IF ra.riskScore >= ApprovalCeiling
    THEN [ra EXCEPT !.approved = FALSE,
                    !.riskFactors = Append(@, Factor("high_risk_score", "high"))]
    ELSE [ra EXCEPT !.approved = TRUE]

\* RiskManager.makeFinalApprovalDecision
makeFinalApprovalDecision(ra) ==
    IF CountSeverity(ra.riskFactors, "critical") > 0
    THEN [ra EXCEPT !.approved = FALSE]
    ELSE IF ra.riskScore > ApprovalCeiling
    THEN [ra EXCEPT !.approved = FALSE,
                    !.riskFactors = Append(@, Factor("high_risk_score", "high"))]
    ELSE [ra EXCEPT !.approved = TRUE]

\* The object returned by the catch block of assessOpportunityRisk
AssessmentError(ra) ==
    [ra EXCEPT !.pc = "done", !.approved = FALSE, !.riskScore = 100,
               !.riskFactors = <<Factor("assessment_error", "critical")>>,
               !.positionSize = 0, !.maxSlippage = 0, !.timestamp = Null]

\* Variant: the elapsed milliseconds compared with the cooldown in seconds
BreakerCoolingDown_seconds ==
    /\ circuitBreakerActive
    /\ now - circuitBreakerActivatedAt < cooldownPeriod \div 1000

\* Guard of the early return of step 2
BreakerCoolingDown ==
    /\ circuitBreakerActive
    /\ now - circuitBreakerActivatedAt < cooldownPeriod

----
\* State of the RiskManager after its constructor
RiskInit ==
    /\ dailyStats = FreshDailyStats(StartTime)
    /\ circuitBreakerActive = FALSE
    /\ circuitBreakerActivatedAt = Null
    /\ positionHistory = <<>>
    /\ asmt = NewAssessment(0, 0, Null)

\* Variant: the emergency stop looked at only after the circuit breaker
EmergencyStopped_late == emergencyStop /\ ~circuitBreakerActive

\* Whether step 1 of assessOpportunityRisk returns
EmergencyStopped == emergencyStop

\* Variant: deactivateCircuitBreaker without the counter reset
DeactivatedStats_keep(stats) == stats

\* The counter reset of deactivateCircuitBreaker
DeactivatedStats(stats) == [stats EXCEPT !.consecutiveFailures = 0]

\* Time passes.
Tick(d, horizon) ==
    /\ now + d <= StartTime + horizon
    /\ now' = now + d
    /\ UNCHANGED <<riskVars, execVars, botVars, finderVars, pricingVars, chainVars>>

\* Steps 1-5 of assessOpportunityRisk on the fresh assessment ra: the early
\* returns of steps 1 and 2, the catch block when step 3 or 5 throws
\* (in.wellFormed = FALSE stands for a null opportunity or profitability), or
\* the assessment as it stands when provider.getGasPrice() is called
AssessSteps1to5(ra, in) ==
    IF EmergencyStopped
    THEN [ra EXCEPT !.pc = "done",
                    !.riskFactors = <<Factor("emergency_stop", "critical")>>]
    ELSE IF BreakerCoolingDown
    THEN [ra EXCEPT !.pc = "done",
                    !.riskFactors = <<Factor("circuit_breaker", "critical")>>]
    ELSE IF ~in.wellFormed THEN AssessmentError(ra)
    ELSE [assessSlippageRisk(
            assessPositionSizeRisk(
              assessProfitMarginRisk(ra, in.profitMargin),
              in.amountETH),
            in.profitPercentage) EXCEPT !.pc = "gas"]

\* Steps 6-10 of assessOpportunityRisk, run when provider.getGasPrice() has
\* settled (gas = Null: it rejected) with the daily statistics stats
AssessSteps6to10(ra, gas, stats) ==
    [makeFinalApprovalDecision(
       calculateFinalRiskScore(
         assessMarketConditions(
           assessDailyLossRisk(assessGasPriceRisk(ra, gas), stats),
           stats))) EXCEPT !.pc = "done"]

\* assessOpportunityRisk up to its first real suspension point: steps 1-5 and
\* the call of provider.getGasPrice() in step 6.
AssessStart(in) ==
    /\ asmt.pc # "gas"
    /\ asmt' = AssessSteps1to5(NewAssessment(in.netProfitETH, 1 - asmt.call, now), in)
    /\ IF ~EmergencyStopped /\ ~BreakerCoolingDown /\ circuitBreakerActive
       THEN \* deactivateCircuitBreaker
            /\ circuitBreakerActive' = FALSE
            /\ circuitBreakerActivatedAt' = Null
            /\ dailyStats' = DeactivatedStats(dailyStats)
       ELSE UNCHANGED <<dailyStats, circuitBreakerActive, circuitBreakerActivatedAt>>
    /\ UNCHANGED <<now, emergencyStop, positionHistory, nextResetAt, execVars, botVars, finderVars, pricingVars, chainVars>>

\* provider.getGasPrice() settles (gas = Null: it rejected) and steps 6-10 run.
AssessFinish(gas) ==
    /\ asmt.pc = "gas"
    /\ asmt' = AssessSteps6to10(asmt, gas, dailyStats)
    /\ UNCHANGED <<now, emergencyStop, dailyStats, circuitBreakerActive,
                   circuitBreakerActivatedAt, positionHistory, nextResetAt, execVars, botVars, finderVars, pricingVars, chainVars>>

\* Variant: the threshold test written > instead of >=
ShouldActivate_late(failures) == failures > circuitBreakerThreshold

\* Whether recordTradeResult trips the breaker after a failure
ShouldActivate(failures) == failures >= circuitBreakerThreshold

\* Variant: the net profit of the day not recomputed
WithNetProfit_stale(stats) == stats

\* The assignment to dailyStats.netProfitETH that ends the update of the
\* daily statistics
WithNetProfit(stats) ==
    [stats EXCEPT !.netProfitETH = stats.totalProfitETH - stats.totalLossETH]

\* RiskManager.recordTradeResult (with activateCircuitBreaker)
recordTradeResult(success, netProfitETH) ==
    /\ Len(positionHistory) < MaxTrades
    /\ LET s1 == IF success
                 THEN [dailyStats EXCEPT
                         !.executedTrades = @ + 1,
                         !.consecutiveFailures = 0,
                         !.totalProfitETH = IF netProfitETH > 0 THEN @ + netProfitETH ELSE @,
                         !.totalLossETH = IF netProfitETH > 0 THEN @ ELSE @ + Abs(netProfitETH)]
                 ELSE [dailyStats EXCEPT
                         !.failedTrades = @ + 1,
                         !.consecutiveFailures = @ + 1]
       IN /\ dailyStats' = WithNetProfit(s1)
          /\ IF ~success /\ ShouldActivate(s1.consecutiveFailures)
             THEN /\ circuitBreakerActive' = TRUE
                  /\ circuitBreakerActivatedAt' = now
             ELSE UNCHANGED <<circuitBreakerActive, circuitBreakerActivatedAt>>
    /\ positionHistory' = SliceLast(Append(positionHistory, success), maxHistorySize)
    /\ UNCHANGED <<now, emergencyStop, nextResetAt, asmt, execVars, botVars, finderVars, pricingVars, chainVars>>

\* Variant: the daily reset closes the breaker as well
resetDailyStats_closing ==
    /\ now >= nextResetAt
    /\ dailyStats' = FreshDailyStats(now)
    /\ nextResetAt' = nextResetAt + DayMs
    /\ circuitBreakerActive' = FALSE
    /\ circuitBreakerActivatedAt' = Null
    /\ UNCHANGED <<now, emergencyStop, positionHistory, asmt, execVars, botVars,
                   finderVars, pricingVars, chainVars>>

\* RiskManager.resetDailyStats, run by the timer of initializeDailyReset
resetDailyStats ==
    /\ now >= nextResetAt
    /\ dailyStats' = FreshDailyStats(now)
    /\ nextResetAt' = nextResetAt + DayMs
    /\ UNCHANGED <<now, emergencyStop, circuitBreakerActive,
                   circuitBreakerActivatedAt, positionHistory, asmt, execVars, botVars, finderVars, pricingVars, chainVars>>

----
\* ArbitrageExecutor.  One record per caller of executeArbitrage:
\*   pc      "idle"; the await the call is suspended in ("validate", "balance",
\*           "estimate", "gasprice", "send", "wait"); "returned"
\*   callNo  which call of the run this is (0: none yet)
\*   p       the profitability argument
\*   gwei    what the getGasPrice of validateOpportunity gave (Null: nothing)
\*   balance what the getBalance of checkWalletBalance gave (Null: nothing)
\*   params  what prepareArbitrageParams returned (NoParams: null / not run)
\*   result  the value the call settled with; result.thrown: the promise of
\*           executeArbitrage rejected instead of resolving
Requesters == {"r1", "r2"}

NoResult == [success |-> FALSE, reason |-> "", status |-> Null, thrown |-> FALSE]

\* Shapes of the profitability argument: "full" is a report of
\* calculateArbitrageProfitability; "noProfit" lacks netProfitUSD/profitMargin
\* (the log call of line 236 throws); "noCosts" lacks costs (line 248 throws).
Report(shape, margin) ==
    [shape |-> shape, gasPrice |-> 50, profitMargin |-> margin,
     gasCostETH |-> 10, isProfitable |-> margin > 0,
     netProfitUSD |-> margin \div 5, riskScore |-> 25]

NoReport == Report("none", 0)

\* A venue configuration of dexConfigs is modelled by its type; NoDex stands
\* for a venue that dexConfigs.find does not find
NoDex == "none"

NoParams == [prepared |-> FALSE, buyType |-> NoDex, sellType |-> NoDex,
             swapData |-> <<"", "">>]

IdleReq == [pc |-> "idle", callNo |-> 0, p |-> NoReport, gwei |-> Null,
            balance |-> Null, params |-> NoParams, result |-> NoResult]

\* ProfitCalculator.isOpportunityViable(profitability, minProfitUSD = 5,
\* maxRiskScore = 70); p = NoReport stands for a null report.  minProfitUSD
\* is in the unit of p.netProfitUSD.
MarginFloor == 50
DefaultMinProfitUSD == 5
DefaultMaxRiskScore == 70

AboveViabilityFloor(p) == p.profitMargin > MarginFloor

\* Variant: the risk score is not looked at
isOpportunityViable_norisk(p, minProfitUSD, maxRiskScore) ==
    IF p.shape = "none" THEN FALSE
    ELSE /\ p.isProfitable
         /\ p.netProfitUSD >= minProfitUSD
         /\ AboveViabilityFloor(p)

isOpportunityViable(p, minProfitUSD, maxRiskScore) ==
    IF p.shape = "none" THEN FALSE
    ELSE /\ p.isProfitable
         /\ p.netProfitUSD >= minProfitUSD
         /\ p.riskScore <= maxRiskScore
         /\ AboveViabilityFloor(p)

\* ---- ArbitrageExecutor constants ----
executionCooldown == 30000
maxExecutionHistory == 100

\* Variant: no in-progress check
InProgress_off == FALSE

\* Guard of line 215
InProgress == isExecuting

\* Guard of line 222
CooldownActive(t) == t - lastExecutionTime < executionCooldown

\* validateOpportunity: gas = Null when provider.getGasPrice() throws,
\* currentGasPriceGwei > profitability.gasPrice * 1.2 as 10 * gas > 12 * gasPrice
validateOpportunity(p, gas) ==
    IF gas = Null THEN FALSE
    ELSE IF 10 * gas > 12 * p.gasPrice THEN FALSE
    ELSE IF p.profitMargin < 50 THEN FALSE
    ELSE TRUE

\* Variant: the balance compared with the gas cost itself
checkWalletBalance_1x(requiredETH, balance) ==
    IF balance = Null THEN FALSE
    ELSE IF balance < requiredETH THEN FALSE
    ELSE TRUE

\* checkWalletBalance: balance = Null when wallet.getBalance() throws
checkWalletBalance(requiredETH, balance) ==
    IF balance = Null THEN FALSE
    ELSE IF balance < requiredETH * 2 THEN FALSE
    ELSE TRUE

\* prepareSwapData: the call data encoded for one leg, by the venue's type
prepareSwapData(type) ==
    IF type \in {"UNISWAP_V2", "SUSHISWAP"} THEN "swapExactTokensForTokens"
    ELSE IF type = "UNISWAP_V3" THEN "exactInputSingle"
    ELSE "0x"

\* prepareArbitrageParams: cfg.buy / cfg.sell are the types of the venues
\* named by opportunity.buyDex / sellDex in dexConfigs
prepareArbitrageParams(cfg) ==
    IF cfg.buy = NoDex \/ cfg.sell = NoDex THEN NoParams
    ELSE [prepared |-> TRUE, buyType |-> cfg.buy, sellType |-> cfg.sell,
          swapData |-> <<prepareSwapData(cfg.buy), prepareSwapData(cfg.sell)>>]

\* Early return of executeArbitrage with a reason
Rejected(reason) ==
    [success |-> FALSE, reason |-> reason, status |-> Null, thrown |-> FALSE]

\* Result of the catch blocks (executeArbitrage and executeFlashloan):
\* reason is error.message
CaughtError(where) ==
    [success |-> FALSE, reason |-> "error: " \o where, status |-> Null, thrown |-> FALSE]

\* Variant: any receipt taken for a success
ReceiptResult_any(status) ==
    [success |-> TRUE, reason |-> "", status |-> status, thrown |-> FALSE]

\* Result of executeFlashloan from the receipt of tx.wait()
ReceiptResult(status) ==
    IF status = 1
    THEN [success |-> TRUE, reason |-> "", status |-> status, thrown |-> FALSE]
    ELSE [success |-> FALSE, reason |-> "Transaction failed", status |-> status,
          thrown |-> FALSE]

\* ArbitrageExecutor.recordExecution
recordExecution(history, result) ==
    SliceLast(Append(history, result.success), maxExecutionHistory)

\* return of executeArbitrage from inside the try: the finally block runs
Settled(callNo, result) ==
    [IdleReq EXCEPT !.pc = "returned", !.callNo = callNo, !.result = result]

\* Variant: the finally block missing
Return_keep(r, result) ==
    /\ req' = [req EXCEPT ![r] = Settled(req[r].callNo, result)]
    /\ UNCHANGED isExecuting

\* The finally block of executeArbitrage on a return from inside the try
Return(r, result) ==
    /\ req' = [req EXCEPT ![r] = Settled(req[r].callNo, result)]
    /\ isExecuting' = FALSE

\* return of executeArbitrage after step 5 (recordExecution)
ReturnRecorded(r, result) ==
    /\ Return(r, result)
    /\ executionHistory' = recordExecution(executionHistory, result)

Suspend(r, at) == req' = [req EXCEPT ![r].pc = at]

ExecInit ==
    /\ isExecuting = FALSE
    /\ lastExecutionTime = 0
    /\ executionHistory = <<>>
    /\ req = [r \in Requesters |-> IdleReq]
    /\ calls = 0
    /\ lastSubmitAt = 0

MaxCalls == 3                   \* executeArbitrage calls explored
ExecHorizon == 50000            \* the clock stops this long after StartTime

\* executeArbitrage(opportunity, p, dexConfigs) up to its first suspension
\* point, the provider.getGasPrice() of validateOpportunity
Call(r, p) ==
    /\ req[r].pc \in {"idle", "returned"}
    /\ calls < MaxCalls
    /\ calls' = calls + 1
    /\ IF InProgress
       THEN /\ req' = [req EXCEPT ![r] =
                         Settled(calls + 1, Rejected("Execution in progress"))]
            /\ UNCHANGED <<isExecuting, lastExecutionTime>>
       ELSE IF CooldownActive(now)
       THEN /\ req' = [req EXCEPT ![r] = Settled(calls + 1, Rejected("Cooldown active"))]
            /\ UNCHANGED <<isExecuting, lastExecutionTime>>
       ELSE /\ lastExecutionTime' = now
            /\ IF p.shape = "noProfit"
               THEN /\ req' = [req EXCEPT ![r] = Settled(calls + 1, CaughtError("toFixed"))]
                    /\ isExecuting' = FALSE
               ELSE /\ isExecuting' = TRUE
                    /\ req' = [req EXCEPT ![r] = [IdleReq EXCEPT !.pc = "validate",
                                                  !.callNo = calls + 1, !.p = p]]
    /\ UNCHANGED <<now, riskVars, botVars, finderVars, pricingVars, chainVars, executionHistory, lastSubmitAt>>

\* getGasPrice of validateOpportunity settles; on success the call goes on to
\* wallet.getBalance() of checkWalletBalance
Validate(r, gas) ==
    /\ req[r].pc = "validate"
    /\ IF ~validateOpportunity(req[r].p, gas)
       THEN /\ req' = [req EXCEPT ![r] =
                         [Settled(req[r].callNo, Rejected("Opportunity no longer valid"))
                            EXCEPT !.gwei = gas]]
            /\ isExecuting' = FALSE
       ELSE IF req[r].p.shape = "noCosts"
       THEN /\ req' = [req EXCEPT ![r] =
                         [Settled(req[r].callNo, CaughtError("costs")) EXCEPT !.gwei = gas]]
            /\ isExecuting' = FALSE
       ELSE /\ req' = [req EXCEPT ![r].pc = "balance", ![r].gwei = gas]
            /\ UNCHANGED isExecuting
    /\ UNCHANGED <<now, riskVars, botVars, finderVars, pricingVars, chainVars, lastExecutionTime, executionHistory, calls,
                   lastSubmitAt>>

\* getBalance settles; prepareArbitrageParams runs on the venues cfg of
\* dexConfigs; on success executeFlashloan starts with estimateGas
Balance(r, balance, cfg) ==
    /\ req[r].pc = "balance"
    /\ IF ~checkWalletBalance(req[r].p.gasCostETH, balance)
       THEN /\ req' = [req EXCEPT ![r] =
                         [Settled(req[r].callNo, Rejected("Insufficient ETH for gas"))
                            EXCEPT !.gwei = req[r].gwei, !.balance = balance]]
            /\ isExecuting' = FALSE
       ELSE IF ~prepareArbitrageParams(cfg).prepared
       THEN /\ req' = [req EXCEPT ![r] =
                         [Settled(req[r].callNo,
                                  Rejected("Failed to prepare arbitrage parameters"))
                            EXCEPT !.gwei = req[r].gwei, !.balance = balance]]
            /\ isExecuting' = FALSE
       ELSE /\ req' = [req EXCEPT ![r].pc = "estimate", ![r].balance = balance,
                                  ![r].params = prepareArbitrageParams(cfg)]
            /\ UNCHANGED isExecuting
    /\ UNCHANGED <<now, riskVars, botVars, finderVars, pricingVars, chainVars, lastExecutionTime, executionHistory, calls,
                   lastSubmitAt>>

\* contract.estimateGas.requestFlashLoan settles
Estimate(r, ok) ==
    /\ req[r].pc = "estimate"
    /\ IF ok
       THEN Suspend(r, "gasprice") /\ UNCHANGED <<isExecuting, executionHistory>>
       ELSE ReturnRecorded(r, CaughtError("estimateGas"))
    /\ UNCHANGED <<now, riskVars, botVars, finderVars, pricingVars, chainVars, lastExecutionTime, calls, lastSubmitAt>>

\* getGasPrice of executeFlashloan settles; on success the transaction is
\* submitted with contract.requestFlashLoan
GasPrice(r, ok) ==
    /\ req[r].pc = "gasprice"
    /\ IF ok
       THEN /\ Suspend(r, "send")
            /\ lastSubmitAt' = now
            /\ UNCHANGED <<isExecuting, executionHistory>>
       ELSE /\ ReturnRecorded(r, CaughtError("getGasPrice"))
            /\ UNCHANGED lastSubmitAt
    /\ UNCHANGED <<now, riskVars, botVars, finderVars, pricingVars, chainVars, lastExecutionTime, calls>>

\* contract.requestFlashLoan settles: the transaction was sent or the call failed
Send(r, ok) ==
    /\ req[r].pc = "send"
    /\ IF ok
       THEN Suspend(r, "wait") /\ UNCHANGED <<isExecuting, executionHistory>>
       ELSE ReturnRecorded(r, CaughtError("requestFlashLoan"))
    /\ UNCHANGED <<now, riskVars, botVars, finderVars, pricingVars, chainVars, lastExecutionTime, calls, lastSubmitAt>>

\* tx.wait() settles: a receipt with status 1 or 0, or a rejection (Null).
\* (ethers 5 reports a reverted transaction by rejecting; the status-0 branch
\* of the source is kept as the source has it.)
Wait(r, status) ==
    /\ req[r].pc = "wait"
    /\ IF status = Null
       THEN ReturnRecorded(r, CaughtError("wait"))
       ELSE ReturnRecorded(r, ReceiptResult(status))
    /\ UNCHANGED <<now, riskVars, botVars, finderVars, pricingVars, chainVars, lastExecutionTime, calls, lastSubmitAt>>

----
\* FlashloanArbitrageBot (monitor.js).  The callback of the 2-second scan
\* interval is not awaited by the timer, so several callbacks can be running;
\* one record per running callback:
\*   pc           "idle"; "scan" (in scanForArbitrageOpportunities, suspended
\*                in the getGasPrice of calculateArbitrageProfit); the await
\*                of executeArbitrage it is suspended in ("gasprice", "send",
\*                "wait"); "done"
\*   currentTime  the Date.now() read on entry of executeArbitrage
\*   wouldExecute the scan ended with the demo mode log line
ScanSlots == {"s1", "s2"}

scanInterval == 2000
botExecutionCooldown == 30000
MAX_GAS_PRICE_GWEI == 100

IdleScan == [pc |-> "idle", currentTime |-> 0, wouldExecute |-> FALSE]

DoneScan == [pc |-> "done", currentTime |-> 0, wouldExecute |-> FALSE]

BotInit ==
    /\ botLastExecutionTime = 0
    /\ scans = [s \in ScanSlots |-> IdleScan]
    /\ scanCount = 0
    /\ submissions = <<>>

BotHorizon == 34000             \* the clock stops this long after StartTime
MaxSubmissions == 3             \* requestFlashLoan calls of the bot explored
MaxScans == 4                   \* scans with prices to work on explored

\* Guard of the early return of FlashloanArbitrageBot.executeArbitrage
BotCooldownActive(currentTime) ==
    currentTime - botLastExecutionTime < botExecutionCooldown

\* The interval fires n times, 2 seconds apart; the callback of the last
\* firing starts a scan that has prices to work on (the earlier ones find no
\* pair with two fresh prices and return at once).
IntervalFires(s, n) ==
    /\ now + n * scanInterval <= StartTime + BotHorizon
    /\ now' = now + n * scanInterval
    /\ scans[s].pc \in {"idle", "done"}
    /\ scanCount < MaxScans
    /\ scanCount' = scanCount + 1
    /\ scans' = [scans EXCEPT ![s] = [IdleScan EXCEPT !.pc = "scan"]]
    /\ UNCHANGED <<riskVars, execVars, botLastExecutionTime, submissions, demoMode,
                   finderVars, pricingVars, chainVars>>

\* Variant: the demo mode setting not looked at
DemoModeOn_off == FALSE

\* The test CONFIG.DEMO_MODE of scanForArbitrageOpportunities
DemoModeOn == demoMode

\* The getGasPrice of calculateArbitrageProfit settles and the scan ends:
\* with no opportunity worth MIN_PROFIT_USD (or the call rejected), with the
\* "DEMO MODE: Would execute arbitrage" log line in demo mode, or with
\* executeArbitrage(bestOpportunity), which runs up to its own getGasPrice
ScanReturns(s, profitable) ==
    /\ scans[s].pc = "scan"
    /\ scans' = [scans EXCEPT ![s] =
                   IF ~profitable THEN DoneScan
                   ELSE IF DemoModeOn THEN [DoneScan EXCEPT !.wouldExecute = TRUE]
                   ELSE IF BotCooldownActive(now) THEN DoneScan
                   ELSE [pc |-> "gasprice", currentTime |-> now,
                         wouldExecute |-> FALSE]]
    /\ UNCHANGED <<now, riskVars, execVars, botLastExecutionTime, scanCount,
                   submissions, demoMode, finderVars, pricingVars, chainVars>>

\* The getGasPrice of executeArbitrage settles (gas = Null: it rejected); if
\* the price is acceptable contract.requestFlashLoan is called
BotGasPrice(s, gas) ==
    /\ scans[s].pc = "gasprice"
    /\ IF gas = Null \/ gas > MAX_GAS_PRICE_GWEI
       THEN /\ scans' = [scans EXCEPT ![s] = DoneScan]
            /\ UNCHANGED submissions
       ELSE /\ Len(submissions) < MaxSubmissions
            /\ scans' = [scans EXCEPT ![s].pc = "send"]
            /\ submissions' = Append(submissions, now)
    /\ UNCHANGED <<now, riskVars, execVars, botLastExecutionTime, scanCount,
                   demoMode, finderVars, pricingVars, chainVars>>

\* contract.requestFlashLoan settles: the transaction was sent, or the call
\* rejected and the catch block ends executeArbitrage
BotSend(s, ok) ==
    /\ scans[s].pc = "send"
    /\ scans' = [scans EXCEPT ![s] = IF ok THEN [@ EXCEPT !.pc = "wait"] ELSE DoneScan]
    /\ UNCHANGED <<now, riskVars, execVars, botLastExecutionTime, scanCount,
                   submissions, demoMode, finderVars, pricingVars, chainVars>>

\* tx.wait() settles: with a receipt, after which lastExecutionTime is set to
\* the time read on entry, or by rejecting (status = Null), which skips that
BotWait(s, status) ==
    /\ scans[s].pc = "wait"
    /\ botLastExecutionTime' =
         IF status = Null THEN botLastExecutionTime ELSE scans[s].currentTime
    /\ scans' = [scans EXCEPT ![s] = DoneScan]
    /\ UNCHANGED <<now, riskVars, execVars, scanCount, submissions, demoMode, finderVars, pricingVars, chainVars>>

----
\* DexPriceFetcher (src/src/MultiChainManager.js).  Venues are numbered by
\* their position in dexConfigs.  quotes[v] is the promise of fetchPrice for
\* venue v: Pending, Null (no quote: fetchPrice returned null) or the price
\* of the quote.  Prices are integers, one unit of the quoted rate each.
Pending == 0 - 2

NumVenues == 3
Venues == 1..NumVenues

NoOpportunity ==
    [found |-> FALSE, thrown |-> FALSE, buyDex |-> 0, sellDex |-> 0,
     buyPrice |-> 0, sellPrice |-> 0, profitPercentage |-> 0]

\* Reading prices[0] of an empty array: a TypeError
FinderThrown == [NoOpportunity EXCEPT !.thrown = TRUE]

\* The finder call: pc "idle", "fetching" (awaiting Promise.allSettled),
\* "oracle" (awaiting the two getChainlinkPrice calls), "done";
\* validated: findValidatedArbitrageOpportunity rather than
\* findArbitrageOpportunity; prices: what fetchMultiplePrices returned;
\* surviving: the list that was sorted; oracle: the oracle prices read
\* oracleValidated: the property of that name of the object returned
IdleFinder ==
    [pc |-> "idle", validated |-> FALSE, prices |-> <<>>, surviving |-> <<>>,
     oracle |-> <<Null, Null>>, result |-> NoOpportunity,
     oracleValidated |-> FALSE]

FinderInit ==
    /\ quotes = [v \in Venues |-> Null]
    /\ finder = IdleFinder

\* The filter and map of fetchMultiplePrices over the settled promises
fetchMultiplePrices(qs) ==
    SelectSeq([v \in Venues |-> [dex |-> v, price |-> qs[v]]],
              LAMBDA e : e.price # Null)

\* Array.prototype.sort with (a, b) => a.price.price - b.price.price: a
\* stable sort, written as the insertion of each element after the elements
\* that do not compare greater
InsertByPrice(e, sorted) ==
    LET k == Cardinality({i \in 1..Len(sorted) : sorted[i].price <= e.price})
    IN SubSeq(sorted, 1, k) \o <<e>> \o SubSeq(sorted, k + 1, Len(sorted))

RECURSIVE SortByPriceFrom(_, _)
SortByPriceFrom(list, sorted) ==
    IF list = <<>> THEN sorted
    ELSE SortByPriceFrom(Tail(list), InsertByPrice(Head(list), sorted))

\* Variant: the list left in enumeration order
SortByPrice_unsorted(list) == list

SortByPrice(list) == SortByPriceFrom(list, <<>>)

\* Variant: any positive spread taken for significant
SignificantSpread_any(buyPrice, sellPrice) == sellPrice > buyPrice

\* profitPercentage > 0.5, with profitPercentage =
\* (sellPrice - buyPrice) / buyPrice * 100, for positive prices
SignificantSpread(buyPrice, sellPrice) == (sellPrice - buyPrice) * 200 > buyPrice

\* Variant: no minimum number of quotes
TooFewPrices_none(list) == FALSE

\* prices.length < 2
TooFewPrices(list) == Len(list) < 2

\* The tail of both finders: sort, take the ends, test the spread.
\* profitPercentage is kept in basis points, rounded down.
BestOpportunity(list) ==
    IF list = <<>> THEN FinderThrown
    ELSE LET sorted == SortByPrice(list)
             cheapest == sorted[1]
             mostExpensive == sorted[Len(sorted)]
         IN IF SignificantSpread(cheapest.price, mostExpensive.price)
            THEN [found |-> TRUE, thrown |-> FALSE,
                  buyDex |-> cheapest.dex, sellDex |-> mostExpensive.dex,
                  buyPrice |-> cheapest.price, sellPrice |-> mostExpensive.price,
                  profitPercentage |->
                    ((mostExpensive.price - cheapest.price) * 10000) \div cheapest.price]
            ELSE NoOpportunity

\* Variant: a tolerance of 10%
WithinTolerance_wide(dexRatio, a, b) == Abs(dexRatio * b - a) * 10 <= a

\* deviation <= 0.05 with deviation = |dexRatio - a/b| / (a/b), for positive
\* oracle prices a and b
WithinTolerance(dexRatio, a, b) == Abs(dexRatio * b - a) * 20 <= a

\* Variant: without oracle prices no quote passes
validatePricesWithOracle_strict(a, b, dexPrices) ==
    IF a = Null \/ b = Null THEN <<>>
    ELSE SelectSeq(dexPrices, LAMBDA e : WithinTolerance(e.price, a, b))

\* validatePricesWithOracle: a, b are what getChainlinkPrice gave for tokenA
\* and tokenB (Null: no feed, stale, or the read failed)
validatePricesWithOracle(a, b, dexPrices) ==
    IF a = Null \/ b = Null THEN dexPrices
    ELSE SelectSeq(dexPrices, LAMBDA e : WithinTolerance(e.price, a, b))

\* What findArbitrageOpportunity returns once the venues answered with qs
findArbitrageOpportunity(qs) ==
    LET prices == fetchMultiplePrices(qs)
    IN IF TooFewPrices(prices) THEN NoOpportunity ELSE BestOpportunity(prices)

\* The return of either finder on the list it sorts.  The object literal of
\* findValidatedArbitrageOpportunity carries oracleValidated: true, that of
\* findArbitrageOpportunity has no such property.
FinderDone(f, list) ==
    LET result == IF TooFewPrices(list) THEN NoOpportunity
                  ELSE BestOpportunity(list)
    IN [f EXCEPT !.pc = "done", !.surviving = list, !.result = result,
                 !.oracleValidated = f.validated /\ result.found]

\* findArbitrageOpportunity / findValidatedArbitrageOpportunity is called:
\* fetchMultiplePrices starts one fetchPrice per venue and awaits them all
Find(validated) ==
    /\ finder.pc \in {"idle", "done"}
    /\ finder' = [IdleFinder EXCEPT !.pc = "fetching", !.validated = validated]
    /\ quotes' = [v \in Venues |-> Pending]
    /\ UNCHANGED <<now, riskVars, execVars, botVars, pricingVars, chainVars>>

\* fetchPrice of venue v settles with quote q (Null: the query failed or the
\* venue has no pair or too little liquidity).  When it was the last one
\* pending, Promise.allSettled resolves and the finder goes on.
VenueAnswers(v, q) ==
    /\ finder.pc = "fetching"
    /\ quotes[v] = Pending
    /\ quotes' = [quotes EXCEPT ![v] = q]
    /\ IF \E w \in Venues \ {v} : quotes[w] = Pending
       THEN UNCHANGED finder
       ELSE LET prices == fetchMultiplePrices(quotes')
                f == [finder EXCEPT !.prices = prices]
            IN finder' = IF TooFewPrices(prices)
                         THEN [f EXCEPT !.pc = "done", !.result = NoOpportunity]
                         ELSE IF finder.validated THEN [f EXCEPT !.pc = "oracle"]
                         ELSE FinderDone(f, prices)
    /\ UNCHANGED <<now, riskVars, execVars, botVars, pricingVars, chainVars>>

\* Both getChainlinkPrice calls of validatePricesWithOracle have settled
OracleAnswers(a, b) ==
    /\ finder.pc = "oracle"
    /\ finder' = FinderDone([finder EXCEPT !.oracle = <<a, b>>],
                            validatePricesWithOracle(a, b, finder.prices))
    /\ UNCHANGED <<now, riskVars, execVars, botVars, pricingVars, chainVars, quotes>>

----
RiskTickSteps == {150000}
NetProfitsETH == {0 - 3000, 1000}
GasPricesGwei == {50, 101}

AssessInput(w, pm, a, pp, np) ==
    [wellFormed |-> w, profitMargin |-> pm, amountETH |-> a,
     profitPercentage |-> pp, netProfitETH |-> np]

\* Arguments of assessOpportunityRisk: a sound opportunity, one fault at a
\* time, several faults together, and a null argument
AssessInputs ==
    { AssessInput(TRUE, 200, 5000, 250, 1000),
      AssessInput(TRUE, 25, 5000, 250, 1000),
      AssessInput(TRUE, 75, 5000, 250, 1000),
      AssessInput(TRUE, 200, 11000, 250, 1000),
      AssessInput(TRUE, 200, 5000, 3100, 1000),
      AssessInput(TRUE, 200, 5000, 250, 0 - 3000),
      AssessInput(TRUE, 200, 11000, 3100, 1000),
      AssessInput(TRUE, 25, 11000, 3100, 0 - 3000),
      AssessInput(FALSE, 0, 0, 0, 0) }

\* ---------------------------------------------------------------------
\* DexPriceFetcher.fetchPrice and its quote cache, for one tokenA, tokenB
\* and amountIn
\* ---------------------------------------------------------------------

cacheTimeout == 5000            \* ms

Fetchers == {"f1", "f2"}        \* concurrent fetchPrice calls

VenueConfig(name, type, router) == [name |-> name, type |-> type, router |-> router]

NoConfig == VenueConfig("none", "none", "none")

\* The venues fetchPrice is called with: the two V2 venues of the Sepolia
\* configuration, where SUSHISWAP is given the Uniswap V2 router, and a venue
\* of a type the switch of fetchPrice does not know
FetchConfigs ==
    { VenueConfig("UNISWAP_V2", "UNISWAP_V2", "0x7a25"),
      VenueConfig("SUSHISWAP", "SUSHISWAP", "0x7a25"),
      VenueConfig("BALANCER", "BALANCER", "0xBA12") }

\* The cases of the switch on dexConfig.type
KnownTypes == {"UNISWAP_V2", "UNISWAP_V3", "SUSHISWAP", "PANCAKESWAP"}

\* The template string of fetchPrice; tokenA, tokenB and amountIn are fixed
cacheKey(dexConfig) == dexConfig.router

CacheKeys == {cacheKey(d) : d \in FetchConfigs}

\* priceCache.get(cacheKey) of a key never set
NoEntry == [data |-> Null, timestamp |-> 0]

\* A fetchPrice call: pc "idle" (none yet), "query" (awaiting the venue) or
\* "returned"; callNo numbers the calls; dexConfig: its first argument;
\* typeKnown: dexConfig.type is one of the four the switch knows; hit:
\* answered from the cache
IdleFetch == [pc |-> "idle", callNo |-> 0, dexConfig |-> NoConfig,
              typeKnown |-> TRUE, hit |-> FALSE, result |-> Null]

CacheInit ==
    /\ priceCache = [k \in CacheKeys |-> NoEntry]
    /\ cachedDex = [k \in CacheKeys |-> "none"]
    /\ fetches = [c \in Fetchers |-> IdleFetch]
    /\ fetchCount = 0
    /\ venueQueries = 0

MaxFetches == 4                 \* fetchPrice calls explored
CacheHorizon == 12000           \* the clock stops this long after StartTime

\* Variant: an entry never expires
CacheFresh_forever(cached, t) == cached # NoEntry

\* Whether fetchPrice answers from the cache at time t
CacheFresh(cached, t) ==
    cached # NoEntry /\ t - cached.timestamp < cacheTimeout

\* fetchPrice(dexConfig, tokenA, tokenB, amountIn) up to its return from the
\* cache, its return for an unknown dexConfig.type, or the await of the
\* venue's quote
FetchPrice(c, dexConfig) ==
    LET cached == priceCache[cacheKey(dexConfig)]
        call == [IdleFetch EXCEPT !.callNo = fetchCount + 1,
                                  !.dexConfig = dexConfig,
                                  !.typeKnown = dexConfig.type \in KnownTypes]
    IN /\ fetches[c].pc \in {"idle", "returned"}
       /\ fetchCount < MaxFetches
       /\ fetchCount' = fetchCount + 1
       /\ IF CacheFresh(cached, now)
          THEN /\ fetches' = [fetches EXCEPT ![c] =
                      [call EXCEPT !.pc = "returned", !.hit = TRUE,
                                   !.result = cached.data]]
               /\ UNCHANGED venueQueries
          ELSE IF dexConfig.type \notin KnownTypes
          THEN /\ fetches' = [fetches EXCEPT ![c] = [call EXCEPT !.pc = "returned"]]
               /\ UNCHANGED venueQueries
          ELSE /\ fetches' = [fetches EXCEPT ![c] = [call EXCEPT !.pc = "query"]]
               /\ venueQueries' = venueQueries + 1
       /\ UNCHANGED <<now, coreVars, chainVars, priceCache, cachedDex, oracleVars, profitCall, cmp>>

\* The venue's quote settles: with priceData q, which is cached under the
\* time of its arrival, or with null or a rejection (q = Null), which is not
QuoteArrives(c, q) ==
    LET key == cacheKey(fetches[c].dexConfig)
    IN /\ fetches[c].pc = "query"
       /\ IF q # Null
          THEN /\ priceCache' = [priceCache EXCEPT ![key] =
                                    [data |-> q, timestamp |-> now]]
               /\ cachedDex' = [cachedDex EXCEPT ![key] = fetches[c].dexConfig.name]
          ELSE UNCHANGED <<priceCache, cachedDex>>
       /\ fetches' = [fetches EXCEPT ![c] = [@ EXCEPT !.pc = "returned", !.result = q]]
       /\ UNCHANGED <<now, coreVars, chainVars, fetchCount, venueQueries, oracleVars, profitCall, cmp>>

\* DexPriceFetcher.clearCache
clearCache ==
    /\ \E k \in CacheKeys : priceCache[k] # NoEntry
    /\ priceCache' = [k \in CacheKeys |-> NoEntry]
    /\ cachedDex' = [k \in CacheKeys |-> "none"]
    /\ UNCHANGED <<now, coreVars, chainVars, fetches, fetchCount, venueQueries, oracleVars,
                   profitCall, cmp>>

CacheTickSteps == {2500}

CachedQuotes == {1900, 2000}

\* ---------------------------------------------------------------------
\* PriceOracle.getPrice.  Prices in thousandths of a dollar.
\* ---------------------------------------------------------------------

oracleCacheTimeout == 30000     \* ms, PriceOracle's cacheTimeout

Symbols == {"ETH", "BNB", "XYZ"}

\* The symbols initializePriceFeeds made a contract for
FeedSymbols == {"ETH", "XYZ"}

\* fallbackPrices[symbol], Null where the table has no such key
fallbackPrices(symbol) ==
    CASE symbol = "ETH" -> 2000000
      [] symbol = "BNB" -> 300000
      [] OTHER -> Null

\* Variant: no default for a symbol the table does not have
getFallbackPrice_nodefault(symbol) == fallbackPrices(symbol)

\* getFallbackPrice(symbol): fallbackPrices[symbol] || 1.0
getFallbackPrice(symbol) ==
    IF fallbackPrices(symbol) = Null THEN 1000 ELSE fallbackPrices(symbol)

Pow10(n) == IF n = 3 THEN 1000 ELSE 1000000

\* parseFloat(ethers.utils.formatUnits(answer, decimals)), in thousandths
formatUnits(answer, decimals) == answer \div (Pow10(decimals) \div 1000)

NoOracleEntry == [price |-> Null, timestamp |-> 0, updatedAt |-> 0]

IdleOracleCall ==
    [pc |-> "idle", symbol |-> "ETH", fromCache |-> FALSE, answer |-> Null,
     updatedAt |-> 0, decimals |-> Null, priceAge |-> 0, result |-> Null]

OracleInit ==
    /\ oracleCache = [s \in Symbols |-> NoOracleEntry]
    /\ oracleCall = IdleOracleCall

OracleHorizon == 45000          \* the clock stops this long after StartTime

\* getPrice(symbol) up to its return from the cache, its return for a symbol
\* without feed, or the await of latestRoundData()
GetPrice(symbol) ==
    /\ oracleCall.pc \in {"idle", "done"}
    /\ oracleCall' =
         IF /\ oracleCache[symbol] # NoOracleEntry
            /\ now - oracleCache[symbol].timestamp < oracleCacheTimeout
         THEN [IdleOracleCall EXCEPT !.pc = "done", !.symbol = symbol,
                                     !.fromCache = TRUE,
                                     !.result = oracleCache[symbol].price]
         ELSE IF symbol \notin FeedSymbols
         THEN [IdleOracleCall EXCEPT !.pc = "done", !.symbol = symbol,
                                     !.result = getFallbackPrice(symbol)]
         ELSE [IdleOracleCall EXCEPT !.pc = "latestRoundData", !.symbol = symbol]
    /\ UNCHANGED <<now, coreVars, chainVars, cacheVars, oracleCache, profitCall, cmp>>

\* latestRoundData() settles: it rejects (answer = Null), which the catch
\* block turns into the fallback price, or it gives an answer updated age
\* seconds ago, and decimals() is awaited
RoundData(answer, age) ==
    /\ oracleCall.pc = "latestRoundData"
    /\ oracleCall' =
         IF answer = Null
         THEN [oracleCall EXCEPT !.pc = "done",
                                 !.result = getFallbackPrice(oracleCall.symbol)]
         ELSE [oracleCall EXCEPT !.pc = "decimals", !.answer = answer,
                                 !.updatedAt = (now \div 1000) - age]
    /\ UNCHANGED <<now, coreVars, chainVars, cacheVars, oracleCache, profitCall, cmp>>

\* decimals() settles (decimals = Null: it rejected) and getPrice runs to its
\* return: a rejection or an answer that is not positive ends in the catch
\* block; a price older than an hour is logged; the price is cached and
\* returned
Decimals(decimals) ==
    /\ oracleCall.pc = "decimals"
    /\ LET priceAge == (now \div 1000) - oracleCall.updatedAt
           price == formatUnits(oracleCall.answer, decimals)
       IN IF decimals = Null \/ oracleCall.answer <= 0
          THEN /\ oracleCall' =
                    [oracleCall EXCEPT !.pc = "done", !.decimals = decimals,
                                       !.result = getFallbackPrice(oracleCall.symbol)]
               /\ UNCHANGED oracleCache
          ELSE /\ oracleCall' =
                    [oracleCall EXCEPT !.pc = "done", !.decimals = decimals,
                                       !.priceAge = priceAge, !.result = price]
               /\ oracleCache' =
                    [oracleCache EXCEPT ![oracleCall.symbol] =
                        [price |-> price, timestamp |-> now,
                         updatedAt |-> oracleCall.updatedAt]]
    /\ UNCHANGED <<now, coreVars, chainVars, cacheVars, profitCall, cmp>>

\* PriceOracle.clearCache
oracleClearCache ==
    /\ oracleCache # [s \in Symbols |-> NoOracleEntry]
    /\ oracleCache' = [s \in Symbols |-> NoOracleEntry]
    /\ UNCHANGED <<now, coreVars, chainVars, cacheVars, oracleCall, profitCall, cmp>>

OracleTickSteps == {15000}

FeedAnswers == {0 - 5000, 0, 1950000}

\* Seconds since the feed's last update
FeedAges == {60, 3601}

FeedDecimals == {3, 6}

\* ---------------------------------------------------------------------
\* ProfitCalculator.calculateArbitrageProfitability and the viability test.
\* Amounts of ETH in units of 1e-7 ETH, dollars in thousandths, percentages
\* in basis points, gas prices in gwei.
\* ---------------------------------------------------------------------

AAVE_FLASHLOAN_FEE(amount) == (amount * 9) \div 10000       \* 0.09%

\* calculateDexFee(amountIn, dexType): every branch sets the rate to 0.3%
calculateDexFee(amount, dexType) == (amount * 3) \div 1000

\* FLASHLOAN_BASE + UNISWAP_V2_SWAP * 2 + TOKEN_TRANSFER * 2 + BUFFER
totalGasEstimate == 150000 + 120000 * 2 + 21000 * 2 + 50000

\* formatEther(calculateGasCost(gasEstimate, gasPriceGwei)): one gas at one
\* gwei is 1e-9 ETH
calculateGasCost(gasEstimate, gasPriceGwei) == (gasEstimate * gasPriceGwei) \div 100

\* An amount of ETH in dollars at ethPriceUSD
InUSD(amountETH, ethPriceUSD) == (amountETH * (ethPriceUSD \div 1000)) \div 10000

\* Variant: the gas cost left out of the costs
totalCosts_nogas(totalDexFees, flashloanFee, gasCost) == totalDexFees + flashloanFee

\* totalCostsETH and totalCostsUSD
totalCosts(totalDexFees, flashloanFee, gasCost) ==
    totalDexFees + flashloanFee + gasCost

\* ProfitCalculator.calculateRiskScore(opportunity, netProfitETH, totalCostsETH)
calculateRiskScore(profitPercentage, netProfitETH, totalCostsETH) ==
    LET margin == IF profitPercentage < 100 THEN 30
                  ELSE IF profitPercentage < 200 THEN 20
                  ELSE IF profitPercentage < 500 THEN 10 ELSE 0
        ratio == IF 10 * Abs(netProfitETH) < totalCostsETH THEN 25
                 ELSE IF 5 * Abs(netProfitETH) < totalCostsETH THEN 15
                 ELSE IF 2 * Abs(netProfitETH) < totalCostsETH THEN 10 ELSE 0
    IN Min(margin + ratio + 5 + 10, 100)

\* An opportunity handed to calculateArbitrageProfitability; wellFormed =
\* FALSE stands for one whose amounts BigNumber.from does not accept
Opportunity(w, amountIn, buyAmountOut, sellAmountOut, pp) ==
    [wellFormed |-> w, amountIn |-> amountIn, buyAmountOut |-> buyAmountOut,
     sellAmountOut |-> sellAmountOut, profitPercentage |-> pp]

\* The object calculateArbitrageProfitability returns for opportunity o at
\* ethPriceUSD and currentGasPrice
ProfitabilityReport(o, ethPriceUSD, currentGasPrice) ==
    LET grossProfitETH == o.sellAmountOut - o.amountIn
        totalDexFeesETH == calculateDexFee(o.amountIn, "UNISWAP_V2")
                             + calculateDexFee(o.buyAmountOut, "SUSHISWAP")
        flashloanFeeETH == AAVE_FLASHLOAN_FEE(o.amountIn)
        gasCostETH == calculateGasCost(totalGasEstimate, currentGasPrice)
        totalCostsETH == totalCosts(totalDexFeesETH, flashloanFeeETH, gasCostETH)
        totalCostsUSD == totalCosts(InUSD(totalDexFeesETH, ethPriceUSD),
                                    InUSD(flashloanFeeETH, ethPriceUSD),
                                    InUSD(gasCostETH, ethPriceUSD))
        netProfitETH == grossProfitETH - totalCostsETH
    IN [shape |-> "full", gasPrice |-> currentGasPrice,
        profitMargin |-> netProfitETH \div (o.amountIn \div 10000),
        gasCostETH |-> gasCostETH, isProfitable |-> netProfitETH > 0,
        netProfitUSD |-> InUSD(grossProfitETH, ethPriceUSD) - totalCostsUSD,
        riskScore |-> calculateRiskScore(o.profitPercentage, netProfitETH,
                                         totalCostsETH),
        amountInETH |-> o.amountIn, grossProfitETH |-> grossProfitETH,
        dexFeesETH |-> totalDexFeesETH, flashloanFeeETH |-> flashloanFeeETH,
        totalCostsETH |-> totalCostsETH, netProfitETH |-> netProfitETH]

\* profitCall: the calculateArbitrageProfitability call and the
\* isOpportunityViable call that follows it
\*   o        the opportunity,  ethPriceUSD  what getPrice("ETH") gave
\*   report   the value the call returned (NoReport: null)
\*   checked, minProfitUSD, maxRiskScore  arguments of isOpportunityViable
\*   viable   what isOpportunityViable returned
IdleProfitCall ==
    [pc |-> "idle", o |-> Opportunity(FALSE, 0, 0, 0, 0), ethPriceUSD |-> 0,
     report |-> NoReport, checked |-> NoReport, minProfitUSD |-> 0,
     maxRiskScore |-> 0, viable |-> FALSE]

ProfitInit == profitCall = IdleProfitCall

\* calculateArbitrageProfitability(opportunity) up to the await of
\* priceOracle.getPrice("ETH"), or to the catch block when BigNumber.from throws
Calculate(o) ==
    /\ profitCall.pc \in {"idle", "done", "checked"}
    /\ profitCall' = IF o.wellFormed
                     THEN [IdleProfitCall EXCEPT !.pc = "getPrice", !.o = o]
                     ELSE [IdleProfitCall EXCEPT !.pc = "done", !.o = o]
    /\ UNCHANGED <<now, coreVars, chainVars, cacheVars, oracleVars, cmp>>

\* getPrice("ETH") settles, and getCurrentGasPrice is awaited
EthPrice(ethPriceUSD) ==
    /\ profitCall.pc = "getPrice"
    /\ profitCall' = [profitCall EXCEPT !.pc = "getGasPrice",
                                        !.ethPriceUSD = ethPriceUSD]
    /\ UNCHANGED <<now, coreVars, chainVars, cacheVars, oracleVars, cmp>>

\* provider.getGasPrice settles (gwei = Null: it rejected, and
\* getCurrentGasPrice returns its default of 20 gwei) and the report is built
ProfitGasPrice(gwei) ==
    /\ profitCall.pc = "getGasPrice"
    /\ profitCall' =
         [profitCall EXCEPT
            !.pc = "done",
            !.report = ProfitabilityReport(profitCall.o, profitCall.ethPriceUSD,
                                           IF gwei = Null THEN 20 ELSE gwei)]
    /\ UNCHANGED <<now, coreVars, chainVars, cacheVars, oracleVars, cmp>>

\* isOpportunityViable(p, minProfitUSD, maxRiskScore) applied to the report
\* just computed or to a report object of the caller's making
Viability(p, minProfitUSD, maxRiskScore) ==
    /\ profitCall.pc = "done"
    /\ profitCall' =
         [profitCall EXCEPT
            !.pc = "checked", !.checked = p, !.minProfitUSD = minProfitUSD,
            !.maxRiskScore = maxRiskScore,
            !.viable = isOpportunityViable(p, minProfitUSD, maxRiskScore)]
    /\ UNCHANGED <<now, coreVars, chainVars, cacheVars, oracleVars, cmp>>

\* 0.4 ETH in, sold for 1%, 5% or 10% more, or for less
Opportunities ==
    { Opportunity(TRUE, 4000000, 4000000, s, pp) :
        s \in {3960000, 4040000, 4200000, 4400000}, pp \in {50, 150, 300, 600} }
    \cup { Opportunity(FALSE, 0, 0, 0, 0) }

EthPricesUSD == {2000000, 3000000}

ProfitGasGwei == {20, 40, 100}

\* Report objects as a caller may hand them to isOpportunityViable
GivenReport(isProfitable, netProfitUSD, riskScore, profitMargin) ==
    [Report("full", profitMargin) EXCEPT !.isProfitable = isProfitable,
                                         !.netProfitUSD = netProfitUSD,
                                         !.riskScore = riskScore]

GivenReports ==
    { GivenReport(ip, np, rs, pm) :
        ip \in BOOLEAN, np \in {4999, 5000, 50000}, rs \in {40, 41, 70, 71},
        pm \in {50, 51} }
    \cup {NoReport}

MinProfitsUSD == {5000, 50000}

MaxRiskScores == {40, 70}

\* ---------------------------------------------------------------------
\* Two runs of assessOpportunityRisk from the same state of the RiskManager
\* ---------------------------------------------------------------------

\* What assessOpportunityRisk returns for input in when started now and
\* provider.getGasPrice() gives gas, nothing else happening in between
Assessed(in, gas) ==
    LET ra == AssessSteps1to5(NewAssessment(in.netProfitETH, 0, now), in)
    IN IF ra.pc = "done" THEN ra
       ELSE AssessSteps6to10(ra, gas,
                             IF circuitBreakerActive THEN DeactivatedStats(dailyStats)
                             ELSE dailyStats)

\* cmp: the risk input raised ("none": no pair yet) and the two assessments
NoPair == [input |-> "none", first |-> NewAssessment(0, 0, Null),
           second |-> NewAssessment(0, 0, Null)]

CmpInit == cmp = NoPair

\* The input in with one risk input raised by d
Raised(in, input, d) ==
    IF input = "position" THEN [in EXCEPT !.amountETH = @ + d]
    ELSE IF input = "slippage" THEN [in EXCEPT !.profitPercentage = @ + d]
    ELSE in

\* The same opportunity assessed twice in the present state, the second time
\* with one risk input larger by d
AssessPair(in, gas, input, d) ==
    /\ cmp' = [input |-> input,
               first |-> Assessed(in, gas),
               second |-> Assessed(Raised(in, input, d),
                                   IF input = "gas" THEN gas + d ELSE gas)]
    /\ UNCHANGED <<now, coreVars, chainVars, cacheVars, oracleVars, profitCall>>

RiskInputs == {"position", "slippage", "gas"}

\* Increases that keep or cross the limits of 10 ETH, 3% and 100 gwei
Increases == {1, 6000}

\* The opportunities assessed in pairs: a sound one, one of low margin, one
\* making a loss, and a null argument
PairInputs ==
    { AssessInput(TRUE, 200, 5000, 250, 1000),
      AssessInput(TRUE, 25, 5000, 250, 1000),
      AssessInput(TRUE, 200, 5000, 250, 0 - 3000),
      AssessInput(FALSE, 0, 0, 0, 0) }

\* ---------------------------------------------------------------------
\* MultiChainArbitrageBot (src/src/ProfitCalculator.js): start, stop and the
\* scan interval.  scanTimers has one element per interval created, in the
\* order of creation: the time it is next due, or Null once cleared.
\* ---------------------------------------------------------------------

SCAN_INTERVAL == 10000          \* ms

MultiInit ==
    /\ isRunning = FALSE
    /\ startCalls = 0
    /\ scanTimers = <<>>
    /\ statusTimers = 0
    /\ botCalls = 0

MaxBotCalls == 4                \* start() and stop() calls explored
MultiHorizon == 30000           \* the clock stops this long after StartTime

MaxTx == 4                      \* transactions to the contract explored

\* start() up to its return when the bot is running, or to the await of
\* startMultiChainMonitoring
start ==
    /\ botCalls < MaxBotCalls
    /\ botCalls' = botCalls + 1
    /\ IF isRunning
       THEN UNCHANGED <<isRunning, startCalls>>
       ELSE /\ isRunning' = TRUE
            /\ startCalls' = startCalls + 1
    /\ UNCHANGED <<now, coreVars, pricingVars, contractVars, scanTimers, statusTimers>>

\* startArbitrageScanning: setInterval(..., SCAN_INTERVAL)
startArbitrageScanning(timers) == Append(timers, now + SCAN_INTERVAL)

\* start() after the await: startArbitrageScanning and startStatusReporting
StartResumes ==
    /\ startCalls > 0
    /\ startCalls' = startCalls - 1
    /\ scanTimers' = startArbitrageScanning(scanTimers)
    /\ statusTimers' = statusTimers + 1
    /\ UNCHANGED <<now, coreVars, pricingVars, contractVars, isRunning, botCalls>>

\* stop()
stop ==
    /\ botCalls < MaxBotCalls
    /\ botCalls' = botCalls + 1
    /\ isRunning' = FALSE
    /\ UNCHANGED <<now, coreVars, pricingVars, contractVars, startCalls, scanTimers, statusTimers>>

\* The callback of interval i runs: it clears its interval when the bot is
\* not running, and starts a scan otherwise
ScanTimerFires(i) ==
    /\ i \in 1..Len(scanTimers)
    /\ scanTimers[i] # Null
    /\ now >= scanTimers[i]
    /\ scanTimers' = [scanTimers EXCEPT ![i] =
                        IF ~isRunning THEN Null ELSE now + SCAN_INTERVAL]
    /\ UNCHANGED <<now, coreVars, pricingVars, contractVars, isRunning, startCalls,
                   statusTimers, botCalls>>

MultiTickSteps == {5000}

\* ---------------------------------------------------------------------
\* FlashloanArbitrage (src/contracts/FlashloanArbitrage.sol).  One action per
\* transaction; a transaction that reverts leaves the storage and the
\* balances as they were.  Token amounts in the token's smallest unit.
\* The Aave pool and the routers are outside the contract: the pool lends
\* `amount`, calls executeOperation with the premium it charges and pulls
\* amount + premium afterwards; what a router's swap delivers is an input.
\* ---------------------------------------------------------------------

Zero == "0x0"                   \* address(0)
Owner == "owner"                \* owner(): the deployer
Pool == "pool"                  \* address(POOL)
This == "this"                  \* address(this)
Senders == {Owner, "stranger"}

Routers == {"UniV2", "UniV3", "Sushi", "Balancer", "Other"}
Tokens == {"WETH", "USDC", "LINK"}

NoDEX == [router |-> Zero, dexType |-> 0, isActive |-> FALSE]

\* The arguments of requestFlashLoan for a loan of 10000 WETH units, a trade
\* WETH -> USDC -> WETH over routers with swap data for every leg
ArbitrageParams(routers, minProfit) ==
    [tokenA |-> "WETH", tokenB |-> "USDC", dexRouters |-> routers,
     swapData |-> [i \in 1..Len(routers) |-> TRUE], minProfit |-> minProfit]

\* A flash loan: the arguments, the premium the pool charges, what the
\* routers deliver leg by leg (20000 USDC units for the first, out2 for the
\* second) and what the price feeds do
Loan(routers, minProfit, out2, feeds) ==
    [asset |-> "WETH", amount |-> 10000, premium |-> 5,
     params |-> ArbitrageParams(routers, minProfit),
     outs |-> <<20000, out2, out2>>, feeds |-> feeds]

NoLoan == Loan(<<>>, 0, 0, "none")

\* The arguments kept of a transaction: the router of addDEX and removeDEX,
\* the loan of requestFlashLoan
RouterArg(router) == [router |-> router, loan |-> NoLoan]
LoanArg(in) == [router |-> Zero, loan |-> in]
NoArgs == [router |-> Zero, loan |-> NoLoan]

NoTx == [fn |-> "none", sender |-> Zero, reverted |-> FALSE, reason |-> "",
         router |-> Zero, loan |-> NoLoan]

\* Variant: no access control
onlyOwner_anyone(sender) == TRUE

\* The onlyOwner modifier
onlyOwner(sender) == sender = Owner

\* The transaction of `sender` calling fn reverts
Reverted(fn, sender, reason, args) ==
    /\ lastTx' = [fn |-> fn, sender |-> sender, reverted |-> TRUE,
                  reason |-> reason, router |-> args.router, loan |-> args.loan]
    /\ UNCHANGED <<dexInfo, activeDEXs, priceFeeds, tokenBalance, ethBalance>>

\* The transaction goes through
Succeeded(fn, sender, args) ==
    lastTx' = [fn |-> fn, sender |-> sender, reverted |-> FALSE, reason |-> "",
               router |-> args.router, loan |-> args.loan]

\* A transaction is sent
Sent ==
    /\ txCount < MaxTx
    /\ txCount' = txCount + 1
    /\ UNCHANGED <<now, coreVars, pricingVars, multiVars>>

\* Variant: a router may be registered twice
AlreadyActive_never(info, router) == FALSE

\* dexInfo[router].isActive as _addDEX tests it
AlreadyActive(info, router) == info[router].isActive

\* _addDEX(router, dexType) on the registry (info, active): the registry it
\* leaves, or the reason of its revert
_addDEX(info, active, router, dexType) ==
    IF router = Zero
    THEN [reverted |-> TRUE, reason |-> "Invalid router address",
          info |-> info, active |-> active]
    ELSE IF AlreadyActive(info, router)
    THEN [reverted |-> TRUE, reason |-> "DEX already exists",
          info |-> info, active |-> active]
    ELSE [reverted |-> FALSE, reason |-> "",
          info |-> [info EXCEPT ![router] =
                      [router |-> router, dexType |-> dexType, isActive |-> TRUE]],
          active |-> Append(active, router)]

\* The routers the constructor registers, and the type each router is
\* registered with
ConstructorDEXs == <<"UniV2", "UniV3", "Sushi", "Balancer">>
DexTypeOf == [r \in Routers \cup {Zero} |->
                IF r \in {"UniV2", "Sushi"} THEN 0
                ELSE IF r = "UniV3" THEN 1
                ELSE IF r = "Balancer" THEN 3
                ELSE 2]

\* The registry after the first n _addDEX calls of the constructor
RECURSIVE Constructed(_)
Constructed(n) ==
    IF n = 0
    THEN [reverted |-> FALSE, reason |-> "",
          info |-> [r \in Routers \cup {Zero} |-> NoDEX], active |-> <<>>]
    ELSE _addDEX(Constructed(n - 1).info, Constructed(n - 1).active,
                 ConstructorDEXs[n], DexTypeOf[ConstructorDEXs[n]])

\* The constructor: four _addDEX calls and three price feeds
ContractInit ==
    /\ dexInfo = Constructed(Len(ConstructorDEXs)).info
    /\ activeDEXs = Constructed(Len(ConstructorDEXs)).active
    /\ priceFeeds = [t \in Tokens \cup {Zero} |->
                       IF t \in {"WETH", "USDC"} THEN "feed" ELSE Zero]
    /\ tokenBalance = [t \in Tokens |-> 0]
    /\ ethBalance = 0
    /\ lastTx = NoTx
    /\ txCount = 0

\* addDEX(router, dexType) sent by sender
addDEX(sender, router, dexType) ==
    /\ Sent
    /\ IF ~onlyOwner(sender)
       THEN Reverted("addDEX", sender, "Ownable: caller is not the owner", RouterArg(router))
       ELSE LET r == _addDEX(dexInfo, activeDEXs, router, dexType)
            IN IF r.reverted
               THEN Reverted("addDEX", sender, r.reason, RouterArg(router))
               ELSE /\ dexInfo' = r.info
                    /\ activeDEXs' = r.active
                    /\ Succeeded("addDEX", sender, RouterArg(router))
                    /\ UNCHANGED <<priceFeeds, tokenBalance, ethBalance>>

\* The loop of removeDEX: the first element equal to router is overwritten
\* with the last one and the array is popped
RemoveFirst(active, router) ==
    LET idx == {i \in 1..Len(active) : active[i] = router}
    IN IF idx = {} THEN active
       ELSE LET i == CHOOSE k \in idx : \A j \in idx : k <= j
                moved == [active EXCEPT ![i] = active[Len(active)]]
            IN SubSeq(moved, 1, Len(active) - 1)

\* removeDEX(router) sent by sender
removeDEX(sender, router) ==
    /\ Sent
    /\ IF ~onlyOwner(sender)
       THEN Reverted("removeDEX", sender, "Ownable: caller is not the owner", RouterArg(router))
       ELSE IF ~dexInfo[router].isActive
       THEN Reverted("removeDEX", sender, "DEX not active", RouterArg(router))
       ELSE /\ dexInfo' = [dexInfo EXCEPT ![router].isActive = FALSE]
            /\ activeDEXs' = RemoveFirst(activeDEXs, router)
            /\ Succeeded("removeDEX", sender, RouterArg(router))
            /\ UNCHANGED <<priceFeeds, tokenBalance, ethBalance>>

\* setPriceFeed(token, priceFeed) sent by sender
setPriceFeed(sender, token, priceFeed) ==
    /\ Sent
    /\ IF ~onlyOwner(sender)
       THEN Reverted("setPriceFeed", sender, "Ownable: caller is not the owner", NoArgs)
       ELSE IF token = Zero
       THEN Reverted("setPriceFeed", sender, "Invalid token address", NoArgs)
       ELSE IF priceFeed = Zero
       THEN Reverted("setPriceFeed", sender, "Invalid price feed address", NoArgs)
       ELSE /\ priceFeeds' = [priceFeeds EXCEPT ![token] = priceFeed]
            /\ Succeeded("setPriceFeed", sender, NoArgs)
            /\ UNCHANGED <<dexInfo, activeDEXs, tokenBalance, ethBalance>>

\* withdrawToken(token, amount) sent by sender; safeTransfer reverts when
\* the contract holds less than amount
withdrawToken(sender, token, amount) ==
    /\ Sent
    /\ IF ~onlyOwner(sender)
       THEN Reverted("withdrawToken", sender, "Ownable: caller is not the owner", NoArgs)
       ELSE IF token = Zero
       THEN Reverted("withdrawToken", sender, "Invalid token address", NoArgs)
       ELSE IF tokenBalance[token] < amount
       THEN Reverted("withdrawToken", sender, "ERC20: transfer amount exceeds balance", NoArgs)
       ELSE /\ tokenBalance' = [tokenBalance EXCEPT ![token] = @ - amount]
            /\ Succeeded("withdrawToken", sender, NoArgs)
            /\ UNCHANGED <<dexInfo, activeDEXs, priceFeeds, ethBalance>>

\* withdrawETH() sent by sender
withdrawETH(sender) ==
    /\ Sent
    /\ IF ~onlyOwner(sender)
       THEN Reverted("withdrawETH", sender, "Ownable: caller is not the owner", NoArgs)
       ELSE /\ ethBalance' = 0
            /\ Succeeded("withdrawETH", sender, NoArgs)
            /\ UNCHANGED <<dexInfo, activeDEXs, priceFeeds, tokenBalance>>

\* receive(): ether sent to the contract
receive(sender, value) ==
    /\ Sent
    /\ ethBalance' = ethBalance + value
    /\ Succeeded("receive", sender, NoArgs)
    /\ UNCHANGED <<dexInfo, activeDEXs, priceFeeds, tokenBalance>>

Revert(reason, bal) == [reverted |-> TRUE, reason |-> reason, bal |-> bal, amountOut |-> 0]

\* _validatePricesWithOracle: the reason of its revert, "" when it returns.
\* feeds is what the two latestRoundData calls do: "fresh" (recent, positive
\* answers), "stale" (feed A updated an hour ago or earlier), "fails"
_validatePricesWithOracle(tokenA, tokenB, feeds) ==
    IF priceFeeds[tokenA] = Zero \/ priceFeeds[tokenB] = Zero THEN ""
    ELSE IF feeds = "fails" THEN ""
    ELSE IF feeds = "stale" THEN "Price feed A stale"
    ELSE ""

\* _executeTrade: out is what the router's swap does, Null for a revert,
\* otherwise the amount of tokenOut it delivers (and reports)
_executeTrade(router, tokenIn, tokenOut, amountIn, hasSwapData, bal, out) ==
    IF amountIn <= 0 THEN Revert("Invalid amount", bal)
    ELSE IF tokenIn = tokenOut THEN Revert("Same token swap", bal)
    ELSE IF bal[tokenIn] < amountIn THEN Revert("Insufficient token balance", bal)
    ELSE IF dexInfo[router].dexType \in {0, 1} /\ out = Null
    THEN Revert("swap reverted", bal)
    ELSE IF dexInfo[router].dexType = 3 /\ out = Null
    THEN Revert("Balancer swap failed - no valid pool", bal)
    ELSE IF dexInfo[router].dexType \notin {0, 1, 3} /\ ~hasSwapData
    THEN Revert("Empty swap data", bal)
    ELSE IF out = Null THEN Revert("DEX swap failed", bal)
    ELSE IF out <= 0 THEN Revert("No tokens received from swap", bal)
    ELSE [reverted |-> FALSE, reason |-> "", amountOut |-> out,
          bal |-> [bal EXCEPT ![tokenIn] = @ - amountIn, ![tokenOut] = @ + out]]

\* The loop of _executeArbitrage from leg i on
RECURSIVE TradeLegs(_, _, _, _, _)
TradeLegs(params, i, bal, currentAmount, outs) ==
    IF i > Len(params.dexRouters) THEN [reverted |-> FALSE, reason |-> "", bal |-> bal,
                                        amountOut |-> currentAmount]
    ELSE LET router == params.dexRouters[i]
             tokenIn == IF i = 1 THEN params.tokenA ELSE params.tokenB
             tokenOut == IF i = 1 THEN params.tokenB ELSE params.tokenA
         IN IF ~dexInfo[router].isActive THEN Revert("DEX not active", bal)
            ELSE IF router = Zero THEN Revert("Invalid router address", bal)
            ELSE IF currentAmount <= 0 THEN Revert("No tokens to trade", bal)
            ELSE IF bal[tokenIn] < currentAmount
            THEN Revert("Insufficient balance for trade", bal)
            ELSE LET t == _executeTrade(router, tokenIn, tokenOut, currentAmount,
                                        params.swapData[i], bal, outs[i])
                 IN IF t.reverted THEN t
                    ELSE TradeLegs(params, i + 1, t.bal, t.amountOut, outs)

\* _executeArbitrage called by the contract itself with the balances bal
_executeArbitrage(params, flashAmount, premium, bal, outs, feeds) ==
    IF Len(params.dexRouters) < 2 THEN Revert("Need at least 2 DEXs", bal)
    ELSE IF Len(params.dexRouters) # Len(params.swapData)
    THEN Revert("Mismatched arrays", bal)
    ELSE IF _validatePricesWithOracle(params.tokenA, params.tokenB, feeds) # ""
    THEN Revert(_validatePricesWithOracle(params.tokenA, params.tokenB, feeds), bal)
    ELSE LET initialBalance == bal[params.tokenA]
             legs == TradeLegs(params, 1, bal, flashAmount, outs)
             finalBalance == legs.bal[params.tokenA]
             profit == finalBalance - initialBalance
             totalCost == flashAmount + premium
         IN IF legs.reverted THEN legs
            ELSE IF ~(finalBalance > initialBalance)
            THEN Revert("No profit generated", bal)
            ELSE IF ~(profit >= params.minProfit)
            THEN Revert("Insufficient profit", bal)
            ELSE IF ~(finalBalance >= totalCost)
            THEN Revert("Insufficient funds to repay loan", bal)
            ELSE legs

\* executeOperation called by sender
executeOperation(sender, asset, amount, premium, initiator, params, bal, outs, feeds) ==
    IF sender # Pool THEN Revert("Caller must be Pool", bal)
    ELSE IF initiator # This THEN Revert("Initiator must be this contract", bal)
    ELSE LET r == _executeArbitrage(params, amount, premium, bal, outs, feeds)
         IN IF r.reverted THEN Revert("Arbitrage failed: " \o r.reason, bal)
            ELSE IF r.bal[asset] - amount - premium < 0
            THEN Revert("arithmetic underflow", bal)
            ELSE r

\* POOL.flashLoanSimple for this contract as receiver, called by initiator:
\* the pool transfers amount, calls executeOperation and pulls
\* amount + premium
flashLoanSimple(initiator, in) ==
    LET lent == [tokenBalance EXCEPT ![in.asset] = @ + in.amount]
        r == executeOperation(Pool, in.asset, in.amount, in.premium, initiator,
                              in.params, lent, in.outs, in.feeds)
    IN IF r.reverted THEN r
       ELSE IF r.bal[in.asset] < in.amount + in.premium
       THEN Revert("ERC20: transfer amount exceeds balance", tokenBalance)
       ELSE [r EXCEPT !.bal = [r.bal EXCEPT ![in.asset] = @ - (in.amount + in.premium)]]

\* requestFlashLoan(asset, amount, params) sent by sender
requestFlashLoan(sender, in) ==
    /\ Sent
    /\ IF ~onlyOwner(sender)
       THEN Reverted("requestFlashLoan", sender, "Ownable: caller is not the owner", LoanArg(in))
       ELSE LET r == flashLoanSimple(This, in)
            IN IF r.reverted
               THEN Reverted("requestFlashLoan", sender, r.reason, LoanArg(in))
               ELSE /\ tokenBalance' = r.bal
                    /\ Succeeded("requestFlashLoan", sender, LoanArg(in))
                    /\ UNCHANGED <<dexInfo, activeDEXs, priceFeeds, ethBalance>>

\* An account calls executeOperation itself, or has the pool lend to the
\* contract (the pool then calls executeOperation with that account as
\* initiator)
ForeignExecute(sender, viaPool, in) ==
    /\ Sent
    /\ LET r == IF viaPool THEN flashLoanSimple(sender, in)
                ELSE executeOperation(sender, in.asset, in.amount, in.premium, sender,
                                      in.params, tokenBalance, in.outs, in.feeds)
       IN IF r.reverted
          THEN Reverted("executeOperation", sender, r.reason, LoanArg(in))
          ELSE /\ tokenBalance' = r.bal
               /\ Succeeded("executeOperation", sender, LoanArg(in))
               /\ UNCHANGED <<dexInfo, activeDEXs, priceFeeds, ethBalance>>

\* Flash loans of 10000 WETH units at a premium of 5: a round trip that
\* returns 10010, 10001 or 9990, a minimum profit above the gain, stale
\* feeds, a single leg, a failing second swap, a router outside the
\* constructor's list
LoanInputs ==
    { Loan(<<"UniV2", "Sushi">>, 5, 10010, "fresh"),
      Loan(<<"UniV2", "Sushi">>, 1, 10001, "fresh"),
      Loan(<<"UniV2", "Sushi">>, 0, 9990, "fails"),
      Loan(<<"UniV2", "Sushi">>, 50, 10010, "fresh"),
      Loan(<<"UniV2", "Sushi">>, 5, 10010, "stale"),
      Loan(<<"UniV2">>, 5, 10010, "fresh"),
      Loan(<<"UniV2", "UniV3">>, 5, Null, "fresh"),
      Loan(<<"UniV2", "Other">>, 5, 10010, "fresh") }

WithdrawAmounts == {1, 10000}

ChainInit ==
    /\ MultiInit
    /\ ContractInit

PricingInit ==
    /\ CacheInit
    /\ OracleInit
    /\ ProfitInit
    /\ CmpInit

RiskSpecInit ==
    /\ now = StartTime
    /\ emergencyStop \in BOOLEAN
    /\ nextResetAt = StartTime + 300000
    /\ RiskInit
    /\ ExecInit
    /\ BotInit
    /\ FinderInit
    /\ PricingInit
    /\ ChainInit
    /\ demoMode = FALSE

RiskNext ==
    \/ \E d \in RiskTickSteps : Tick(d, RiskHorizon)
    \/ \E in \in AssessInputs : AssessStart(in)
    \/ \E g \in GasPricesGwei \cup {Null} : AssessFinish(g)
    \/ \E s \in BOOLEAN, np \in NetProfitsETH : recordTradeResult(s, np)
    \/ resetDailyStats

RiskSpec == RiskSpecInit /\ [][RiskNext]_vars

ExecTickSteps == {10000, 20000}
Reports == {Report("full", 49), Report("full", 50), Report("full", 51),
            Report("noProfit", 0), Report("noCosts", 51)}
CurrentGasGwei == {60, 61}
Balances == {19, 20}

DexConfig(buy, sell) == [buy |-> buy, sell |-> sell]

\* The venues of the opportunity as dexConfigs has them: both encodable, one
\* not configured, one of a type prepareSwapData has no branch for
DexConfigs == { DexConfig("UNISWAP_V2", "UNISWAP_V3"),
                DexConfig("SUSHISWAP", NoDex),
                DexConfig("UNISWAP_V2", "PANCAKESWAP") }

ExecSpecInit ==
    /\ now = StartTime
    /\ emergencyStop = FALSE
    /\ nextResetAt = StartTime + DayMs
    /\ RiskInit
    /\ ExecInit
    /\ BotInit
    /\ FinderInit
    /\ PricingInit
    /\ ChainInit
    /\ demoMode = FALSE

ExecNext ==
    \/ \E d \in ExecTickSteps : Tick(d, ExecHorizon)
    \/ \E r \in Requesters, p \in Reports : Call(r, p)
    \/ \E r \in Requesters, g \in CurrentGasGwei \cup {Null} : Validate(r, g)
    \/ \E r \in Requesters, b \in Balances \cup {Null}, c \in DexConfigs : Balance(r, b, c)
    \/ \E r \in Requesters, ok \in BOOLEAN : Estimate(r, ok)
    \/ \E r \in Requesters, ok \in BOOLEAN : GasPrice(r, ok)
    \/ \E r \in Requesters, ok \in BOOLEAN : Send(r, ok)
    \/ \E r \in Requesters, st \in {0, 1, Null} : Wait(r, st)

ExecSpec == ExecSpecInit /\ [][ExecNext]_vars

\* The executor when every external call made before the submission answers
\* and the submission itself is answered; nothing is assumed of tx.wait(),
\* for which the code sets no timeout
ExecLiveSpec ==
    /\ ExecSpec
    /\ \A r \in Requesters :
         /\ WF_vars(\E g \in CurrentGasGwei \cup {Null} : Validate(r, g))
         /\ WF_vars(\E b \in Balances \cup {Null}, c \in DexConfigs : Balance(r, b, c))
         /\ WF_vars(\E ok \in BOOLEAN : Estimate(r, ok))
         /\ WF_vars(\E ok \in BOOLEAN : GasPrice(r, ok))
         /\ WF_vars(\E ok \in BOOLEAN : Send(r, ok))

BotScanCounts == {1, 15}
BotGasGwei == {50, 101}

BotSpecInit ==
    /\ now = StartTime
    /\ emergencyStop = FALSE
    /\ nextResetAt = StartTime + DayMs
    /\ RiskInit
    /\ ExecInit
    /\ BotInit
    /\ FinderInit
    /\ PricingInit
    /\ ChainInit
    /\ demoMode \in BOOLEAN

BotNext ==
    \/ \E s \in ScanSlots, n \in BotScanCounts : IntervalFires(s, n)
    \/ \E s \in ScanSlots, pr \in BOOLEAN : ScanReturns(s, pr)
    \/ \E s \in ScanSlots, g \in BotGasGwei \cup {Null} : BotGasPrice(s, g)
    \/ \E s \in ScanSlots, ok \in BOOLEAN : BotSend(s, ok)
    \/ \E s \in ScanSlots, st \in {0, 1, Null} : BotWait(s, st)

BotSpec == BotSpecInit /\ [][BotNext]_vars

DexPrices == {1899, 1900, 2000, 2010, 2050}
OraclePricesA == {2000, 4000}
OraclePricesB == {1, 2}

FinderSpecInit ==
    /\ now = StartTime
    /\ emergencyStop = FALSE
    /\ nextResetAt = StartTime + DayMs
    /\ RiskInit
    /\ ExecInit
    /\ BotInit
    /\ FinderInit
    /\ PricingInit
    /\ ChainInit
    /\ demoMode = FALSE

FinderNext ==
    \/ \E validated \in BOOLEAN : Find(validated)
    \/ \E v \in Venues, q \in DexPrices \cup {Null} : VenueAnswers(v, q)
    \/ \E a \in OraclePricesA \cup {Null}, b \in OraclePricesB \cup {Null} :
         OracleAnswers(a, b)

FinderSpec == FinderSpecInit /\ [][FinderNext]_vars

\* The finder when every venue but the last one of dexConfigs answers its
\* quote query and the oracle answers; nothing is assumed of the last venue
AnsweringVenues == Venues \ {NumVenues}

FinderLiveSpec ==
    /\ FinderSpec
    /\ \A v \in AnsweringVenues :
         WF_vars(\E q \in DexPrices \cup {Null} : VenueAnswers(v, q))
    /\ WF_vars(\E a \in OraclePricesA \cup {Null}, b \in OraclePricesB \cup {Null} :
                 OracleAnswers(a, b))

\* ---- the quote cache on its own ----
CacheSpecInit ==
    /\ now = StartTime
    /\ emergencyStop = FALSE
    /\ nextResetAt = StartTime + DayMs
    /\ RiskInit
    /\ ExecInit
    /\ BotInit
    /\ FinderInit
    /\ PricingInit
    /\ ChainInit
    /\ demoMode = FALSE

CacheNext ==
    \/ \E d \in CacheTickSteps : Tick(d, CacheHorizon)
    \/ \E c \in Fetchers, d \in FetchConfigs : FetchPrice(c, d)
    \/ \E c \in Fetchers, q \in CachedQuotes \cup {Null} : QuoteArrives(c, q)
    \/ clearCache

CacheSpec == CacheSpecInit /\ [][CacheNext]_vars

\* ---- the price oracle on its own ----
OracleSpecInit ==
    /\ now = StartTime
    /\ emergencyStop = FALSE
    /\ nextResetAt = StartTime + DayMs
    /\ RiskInit
    /\ ExecInit
    /\ BotInit
    /\ FinderInit
    /\ PricingInit
    /\ ChainInit
    /\ demoMode = FALSE

OracleNext ==
    \/ \E d \in OracleTickSteps : Tick(d, OracleHorizon)
    \/ \E symbol \in Symbols : GetPrice(symbol)
    \/ \E answer \in FeedAnswers \cup {Null}, age \in FeedAges : RoundData(answer, age)
    \/ \E decimals \in FeedDecimals \cup {Null} : Decimals(decimals)
    \/ oracleClearCache

OracleSpec == OracleSpecInit /\ [][OracleNext]_vars

\* ---- the profit calculator on its own ----
ProfitSpecInit ==
    /\ now = StartTime
    /\ emergencyStop = FALSE
    /\ nextResetAt = StartTime + DayMs
    /\ RiskInit
    /\ ExecInit
    /\ BotInit
    /\ FinderInit
    /\ PricingInit
    /\ ChainInit
    /\ demoMode = FALSE

ProfitNext ==
    \/ \E o \in Opportunities : Calculate(o)
    \/ \E ethPriceUSD \in EthPricesUSD : EthPrice(ethPriceUSD)
    \/ \E gwei \in ProfitGasGwei \cup {Null} : ProfitGasPrice(gwei)
    \/ \E p \in GivenReports \cup {profitCall.report},
          minProfitUSD \in MinProfitsUSD, maxRiskScore \in MaxRiskScores :
            Viability(p, minProfitUSD, maxRiskScore)

ProfitSpec == ProfitSpecInit /\ [][ProfitNext]_vars

\* ---- pairs of assessments in the states recorded trades lead to ----
ScoreSpecInit ==
    /\ now = StartTime
    /\ emergencyStop \in BOOLEAN
    /\ nextResetAt = StartTime + DayMs
    /\ RiskInit
    /\ ExecInit
    /\ BotInit
    /\ FinderInit
    /\ PricingInit
    /\ ChainInit
    /\ demoMode = FALSE

ScoreNext ==
    \/ \E s \in BOOLEAN, np \in NetProfitsETH : recordTradeResult(s, np)
    \/ \E in \in PairInputs, gas \in GasPricesGwei, input \in RiskInputs,
          d \in Increases : AssessPair(in, gas, input, d)

ScoreSpec == ScoreSpecInit /\ [][ScoreNext]_vars

MultiSpecInit ==
    /\ now = StartTime
    /\ emergencyStop = FALSE
    /\ nextResetAt = StartTime + DayMs
    /\ RiskInit
    /\ ExecInit
    /\ BotInit
    /\ FinderInit
    /\ PricingInit
    /\ ChainInit
    /\ demoMode = FALSE

MultiNext ==
    \/ \E d \in MultiTickSteps : Tick(d, MultiHorizon)
    \/ start
    \/ StartResumes
    \/ stop
    \/ \E i \in 1..MaxBotCalls : ScanTimerFires(i)

MultiSpec == MultiSpecInit /\ [][MultiNext]_vars

ContractSpecInit ==
    /\ now = StartTime
    /\ emergencyStop = FALSE
    /\ nextResetAt = StartTime + DayMs
    /\ RiskInit
    /\ ExecInit
    /\ BotInit
    /\ FinderInit
    /\ PricingInit
    /\ ChainInit
    /\ demoMode = FALSE

ContractNext ==
    \/ \E s \in Senders, r \in Routers \cup {Zero} : addDEX(s, r, DexTypeOf[r])
    \/ \E s \in Senders, r \in Routers : removeDEX(s, r)
    \/ \E s \in Senders, t \in {"LINK", Zero}, f \in {"feed", Zero} : setPriceFeed(s, t, f)
    \/ \E s \in Senders, t \in {"WETH", Zero}, a \in WithdrawAmounts : withdrawToken(s, t, a)
    \/ \E s \in Senders : withdrawETH(s)
    \/ \E s \in Senders : receive(s, 1)
    \/ \E s \in Senders, in \in LoanInputs : requestFlashLoan(s, in)
    \/ \E viaPool \in BOOLEAN : ForeignExecute("stranger", viaPool, Loan(<<"UniV2", "Sushi">>, 5, 10010, "fresh"))

ContractSpec == ContractSpecInit /\ [][ContractNext]_vars



----
\* Steps of the RiskManager, told apart by what they change.
AssessCallStep == asmt'.call # asmt.call
AssessReturnStep == asmt.pc = "gas" /\ asmt'.pc = "done"
RecordStep == Len(positionHistory') = Len(positionHistory) + 1
FailedRecordStep == RecordStep /\ ~positionHistory'[Len(positionHistory')]
SuccessRecordStep == RecordStep /\ positionHistory'[Len(positionHistory')]

HasCritical(fs, f) == \E i \in 1..Len(fs) : fs[i] = Factor(f, "critical")

\* Steps of the ArbitrageExecutor.
AcceptedPc == {"validate", "balance", "estimate", "gasprice", "send", "wait"}
SubmittedPc == {"send", "wait"}
CallStep(r) == req'[r].callNo # req[r].callNo

\* C1: the executor is single-flight.  At most one executeArbitrage call is
\* past the entry checks at any time, hence at most one requestFlashLoan
\* submission is in flight, and a call made while another accepted call has
\* not returned settles at once with success=false, "Execution in progress".
C1_RejectsWhileBusy ==
    \A r \in Requesters :
        (CallStep(r) /\ \E q \in Requesters \ {r} : req[q].pc \in AcceptedPc)
        => /\ req'[r].pc = "returned"
           /\ req'[r].result.success = FALSE
           /\ req'[r].result.reason = "Execution in progress"

C1_SingleFlight ==
    /\ [](Cardinality({r \in Requesters : req[r].pc \in AcceptedPc}) <= 1)
    /\ [](Cardinality({r \in Requesters : req[r].pc \in SubmittedPc}) <= 1)
    /\ [][C1_RejectsWhileBusy]_vars

C1_Witness ==
    \E r \in Requesters, q \in Requesters :
        /\ req[r].pc = "wait"
        /\ req[q].pc = "returned"
        /\ req[q].callNo > req[r].callNo
        /\ req[q].result.reason = "Execution in progress"

\* C2: every failed recordTradeResult adds exactly 1 to consecutiveFailures,
\* every successful one resets it to 0; the breaker goes from closed to open
\* exactly in the step that brings the counter to circuitBreakerThreshold (3);
\* whenever the counter is at or over the threshold the breaker is active, and
\* an assessment requested then, within the cooldown, is not approved.
C2_Step ==
    /\ FailedRecordStep =>
         dailyStats'.consecutiveFailures = dailyStats.consecutiveFailures + 1
    /\ SuccessRecordStep => dailyStats'.consecutiveFailures = 0
    /\ (~circuitBreakerActive /\ circuitBreakerActive')
         <=> /\ ~circuitBreakerActive
             /\ FailedRecordStep
             /\ dailyStats'.consecutiveFailures = 3
    /\ ( /\ AssessCallStep
         /\ dailyStats.consecutiveFailures >= 3
         /\ now - circuitBreakerActivatedAt < 300000 )
         => asmt'.pc = "done" /\ ~asmt'.approved

C2_BreakerTrips ==
    /\ [](dailyStats.consecutiveFailures >= 3 => circuitBreakerActive)
    /\ [](~circuitBreakerActive => dailyStats.consecutiveFailures < 3)
    /\ [][C2_Step]_vars

C2_Witness ==
    /\ positionHistory = <<FALSE, FALSE, FALSE>>
    /\ dailyStats.consecutiveFailures = 3
    /\ circuitBreakerActive
    /\ asmt.pc = "done"
    /\ asmt.timestamp >= circuitBreakerActivatedAt
    /\ ~asmt.approved
    /\ HasCritical(asmt.riskFactors, "circuit_breaker")

\* The breaker is open and its cooldown (5 minutes) has not elapsed
OpenWithinCooldown ==
    /\ circuitBreakerActive
    /\ now - circuitBreakerActivatedAt < 300000

\* What C3 says of one call made while the breaker cools down
C3_Rejected ==
    /\ asmt'.pc = "done"
    /\ ~asmt'.approved
    /\ HasCritical(asmt'.riskFactors, "circuit_breaker")
    /\ circuitBreakerActivatedAt' = circuitBreakerActivatedAt
    /\ circuitBreakerActive'

\* C3 as stated: while the breaker is open and its cooldown has not elapsed,
\* every assessOpportunityRisk call returns approved=false with a critical
\* circuit_breaker factor and leaves the activation timestamp alone.
C3_AsStated ==
    [][(AssessCallStep /\ OpenWithinCooldown) => C3_Rejected]_vars

\* C3 as amended: the same, for a manager whose emergency-stop flag is not
\* set (with the flag set the call is rejected by step 1 with an
\* emergency_stop factor instead).
C3_OpenRejects ==
    [][(AssessCallStep /\ ~emergencyStop /\ OpenWithinCooldown) => C3_Rejected]_vars

C3_Witness ==
    /\ ~emergencyStop
    /\ circuitBreakerActive
    /\ asmt.pc = "done"
    /\ asmt.timestamp > circuitBreakerActivatedAt
    /\ asmt.timestamp - circuitBreakerActivatedAt < 300000
    /\ HasCritical(asmt.riskFactors, "circuit_breaker")

\* What C4 says of the first call made after the cooldown
C4_Closed ==
    /\ ~circuitBreakerActive'
    /\ circuitBreakerActivatedAt' = Null
    /\ dailyStats'.consecutiveFailures = 0
    /\ ~HasFactor(asmt'.riskFactors, "circuit_breaker")
    /\ ~HasFactor(asmt'.riskFactors, "high_failure_rate")

CooldownElapsed ==
    /\ circuitBreakerActive
    /\ now - circuitBreakerActivatedAt >= 300000

\* C4 as stated: the first assessOpportunityRisk requested once cooldownPeriod
\* has elapsed closes the breaker and zeroes the failure counter before the
\* risk factors are evaluated.
C4_AsStated ==
    [][(AssessCallStep /\ CooldownElapsed) => C4_Closed]_vars

\* C4 as amended: the same when the emergency-stop flag is not set; the
\* failure factor of the assessment is then decided by the counter as it
\* stands when the gas price arrives (zero unless a failure was recorded
\* during that wait).
C4_CooldownCloses ==
    /\ [][(AssessCallStep /\ ~emergencyStop /\ CooldownElapsed) => C4_Closed]_vars
    /\ [][AssessReturnStep =>
            /\ ~HasFactor(asmt'.riskFactors, "circuit_breaker")
            /\ HasFactor(asmt'.riskFactors, "high_failure_rate")
                 <=> dailyStats.consecutiveFailures >= 2]_vars

C4_Witness ==
    /\ ~emergencyStop
    /\ positionHistory = <<FALSE, FALSE, FALSE>>
    /\ dailyStats.lastResetTime = StartTime
    /\ dailyStats.consecutiveFailures = 0
    /\ ~circuitBreakerActive
    /\ circuitBreakerActivatedAt = Null
    /\ asmt.pc = "done"
    /\ asmt.approved

\* C5 (as stated): with no execution in progress, executeArbitrage settles
\* with "Cooldown active" exactly when less than executionCooldown (30 s) has
\* passed since requestFlashLoan was last submitted.
C5_CooldownFromSubmission ==
    [][\A r \in Requesters :
         (CallStep(r) /\ ~isExecuting)
         => (req'[r].result.reason = "Cooldown active"
               <=> now - lastSubmitAt < 30000)]_vars

\* C6 (as stated): every call that passes the cooldown check and reaches a
\* terminal outcome is recorded: it appears in the executor's execution
\* history and reaches the RiskManager's recordTradeResult.
C6_EveryOutcomeRecorded ==
    [][\A r \in Requesters :
         ( /\ req'[r] # req[r]
           /\ req'[r].pc = "returned"
           /\ req'[r].result.reason \notin {"Execution in progress", "Cooldown active"} )
         => /\ Len(executionHistory') = Len(executionHistory) + 1
            /\ executionHistory'[Len(executionHistory')] = req'[r].result.success
            /\ Len(positionHistory') = Len(positionHistory) + 1]_vars

\* C7: on every return path of assessOpportunityRisk, approved is true if and
\* only if the assessment holds no critical factor and its riskScore is at
\* most 70.
C7_ApprovalRule ==
    asmt.pc = "done" =>
        (asmt.approved <=> /\ CountSeverity(asmt.riskFactors, "critical") = 0
                           /\ asmt.riskScore <= 70)

C7_Witness ==
    /\ asmt.pc = "done"
    /\ ~asmt.approved
    /\ CountSeverity(asmt.riskFactors, "critical") = 0
    /\ asmt.riskScore > 70

\* C8: with the emergency-stop flag set every assessOpportunityRisk call
\* returns at once, not approved, with the single critical emergency_stop
\* factor, and changes neither the breaker (an open breaker whose cooldown
\* elapsed stays open), nor the failure counter, nor the daily stats.
C8_EmergencyStop ==
    [][(AssessCallStep /\ emergencyStop)
        => /\ asmt'.pc = "done"
           /\ ~asmt'.approved
           /\ asmt'.riskFactors = <<Factor("emergency_stop", "critical")>>
           /\ UNCHANGED <<circuitBreakerActive, circuitBreakerActivatedAt,
                          dailyStats>>]_vars

C8_Witness ==
    /\ emergencyStop
    /\ circuitBreakerActive
    /\ asmt.pc = "done"
    /\ asmt.timestamp - circuitBreakerActivatedAt >= 300000
    /\ HasCritical(asmt.riskFactors, "emergency_stop")

\* C9: executeArbitrage never throws: every call settles with a result
\* object; success is true only for a receipt of status 1; a confirmed but
\* reverted transaction gives success=false and is recorded as a failure; a
\* failed call carries a reason.
C9_Settled ==
    \A r \in Requesters :
        req[r].pc = "returned" =>
            /\ ~req[r].result.thrown
            /\ req[r].result.success => req[r].result.status = 1
            /\ ~req[r].result.success => req[r].result.reason # ""

C9_RevertRecorded ==
    \A r \in Requesters :
        (req[r].pc = "wait" /\ req'[r].pc = "returned" /\ req'[r].result.status # 1)
        => /\ ~req'[r].result.success
           /\ executionHistory' = Append(executionHistory, FALSE)
           /\ ~isExecuting'

C9_NeverThrows == []C9_Settled /\ [][C9_RevertRecorded]_vars

C9_Witness ==
    \E r \in Requesters :
        /\ req[r].pc = "returned"
        /\ req[r].result.status = 0
        /\ ~req[r].result.success
        /\ Len(executionHistory) > 0
        /\ ~executionHistory[Len(executionHistory)]

\* C10 (as stated): executeArbitrage goes past the revalidation only if the
\* current gas price is at most 20% above the scored one and the margin is
\* above the 0.5% bound of isOpportunityViable; otherwise, or when the gas
\* price cannot be read, it ends with "Opportunity no longer valid" and
\* submits nothing.
C10_RevalidationGate ==
    [][\A r \in Requesters :
         (req[r].pc = "validate" /\ req'[r].pc # "validate")
         => LET p == req[r].p
                g == req'[r].gwei
                fresh == /\ g # Null
                         /\ 10 * g <= 12 * p.gasPrice
                         /\ AboveViabilityFloor(p)
            IN IF fresh
               THEN req'[r].result.reason # "Opportunity no longer valid"
               ELSE /\ req'[r].pc = "returned"
                    /\ req'[r].result.reason = "Opportunity no longer valid"
                    /\ lastSubmitAt' = lastSubmitAt]_vars

\* What has to be on record of a call that is past payload preparation:
\* the revalidation passed, then the wallet held twice the gas cost, then
\* prepareArbitrageParams returned parameters
Revalidated(q) ==
    /\ q.gwei # Null
    /\ 10 * q.gwei <= 12 * q.p.gasPrice
    /\ q.p.profitMargin >= 50

Funded(q) == q.balance # Null /\ q.balance >= 2 * q.p.gasCostETH

C11_Order ==
    \A r \in Requesters :
        /\ req[r].pc = "validate" =>
             req[r].gwei = Null /\ req[r].balance = Null /\ ~req[r].params.prepared
        /\ req[r].pc = "balance" =>
             Revalidated(req[r]) /\ req[r].balance = Null /\ ~req[r].params.prepared
        /\ req[r].pc \in {"estimate", "gasprice", "send", "wait"} =>
             Revalidated(req[r]) /\ Funded(req[r]) /\ req[r].params.prepared

\* A step of the pipeline that fails ends the call
C11_FailedStepEnds ==
    \A r \in Requesters :
        LET q == req'[r]
            ended == /\ q.pc = "returned"
                     /\ ~q.result.success
                     /\ ~q.params.prepared
                     /\ lastSubmitAt' = lastSubmitAt
                     /\ executionHistory' = executionHistory
        IN /\ (req[r].pc = "validate" /\ q.pc # "validate" /\ ~Revalidated(q))
                => ended /\ q.balance = Null
           /\ (req[r].pc = "balance" /\ q.pc # "balance" /\ ~Funded(q)) => ended
           /\ (req[r].pc = "balance" /\ q.pc = "returned") => ended
           /\ lastSubmitAt' # lastSubmitAt =>
                \E s \in Requesters :
                    /\ req[s].pc = "gasprice"
                    /\ req'[s].pc = "send"
                    /\ Revalidated(req[s]) /\ Funded(req[s]) /\ req[s].params.prepared

\* C11: requestFlashLoan is submitted only after the revalidation succeeded,
\* then the wallet was found to hold at least twice the estimated gas cost,
\* then the payloads were prepared, in this order; the first of these steps
\* that fails (a failed balance query included) ends the request with
\* success=false, no later step runs and nothing is submitted.
C11_SubmissionGated == []C11_Order /\ [][C11_FailedStepEnds]_vars

C11_Witness ==
    \E r \in Requesters, q \in Requesters :
        /\ req[r].pc = "send"
        /\ req[r].gwei = 60
        /\ req[r].balance = 20
        /\ req[r].params.prepared
        /\ lastSubmitAt = now
        /\ req[q].pc = "returned"
        /\ req[q].result.reason = "Insufficient ETH for gas"
        /\ req[q].balance = 19

\* C12 (as stated): payload preparation aborts the execution when the buy or
\* the sell venue is not configured or has a type the executor cannot encode
\* (other than UNISWAP_V2, SUSHISWAP, UNISWAP_V3): no such call gets to
\* submit the settlement transaction.
C12_UnknownVenueAborts ==
    \A r \in Requesters :
        req[r].pc \in SubmittedPc =>
            /\ req[r].params.buyType \in {"UNISWAP_V2", "SUSHISWAP", "UNISWAP_V3"}
            /\ req[r].params.sellType \in {"UNISWAP_V2", "SUSHISWAP", "UNISWAP_V3"}

\* C13 (as stated): under overlapping scan cycles the bot of monitor.js never
\* has two requestFlashLoan submissions in flight at once and never submits
\* twice within its 30 s execution cooldown.
C13_BotRateLimited ==
    /\ Cardinality({s \in ScanSlots : scans[s].pc \in {"send", "wait"}}) <= 1
    /\ \A i \in 1..Len(submissions), j \in 1..Len(submissions) :
         i < j => submissions[j] - submissions[i] >= 30000

\* C14 (as stated): every accepted executeArbitrage request eventually
\* returns and clears the in-progress flag, even if the submitted transaction
\* is never confirmed.
C14_AcceptedReturns ==
    \A r \in Requesters :
        (req[r].pc \in AcceptedPc) ~> (req[r].pc = "returned" /\ ~isExecuting)

\* C15 (as stated): a venue whose quote query fails or never completes does
\* not stall the scan: once the other venues have answered,
\* fetchMultiplePrices returns with their quotes.
C15_ScanNotStalled == (finder.pc = "fetching") ~> (finder.pc # "fetching")

\* The finder has returned an opportunity
Emitted == finder.pc = "done" /\ finder.result.found

\* Venues with a quote, and those of them the finder may use: all of them,
\* or on the validated path with both oracle prices those within 5% of the
\* oracle rate finder.oracle[1] / finder.oracle[2]
Quoted == {v \in Venues : quotes[v] # Null /\ quotes[v] # Pending}

OracleAvailable ==
    finder.validated /\ finder.oracle[1] # Null /\ finder.oracle[2] # Null

Within5Percent(v) ==
    Abs(quotes[v] * finder.oracle[2] - finder.oracle[1]) * 20 <= finder.oracle[1]

Survivors == IF OracleAvailable THEN {v \in Quoted : Within5Percent(v)} ELSE Quoted

\* C16: every opportunity emitted by either finder has sellPrice > buyPrice
\* and a spread (sellPrice - buyPrice) / buyPrice * 100 of at least 0.5 (%);
\* when the spread between the cheapest and the dearest usable quote is below
\* 0.5% the result is null.
C16_SpreadThreshold ==
    /\ Emitted =>
         /\ finder.result.sellPrice > finder.result.buyPrice
         /\ (finder.result.sellPrice - finder.result.buyPrice) * 1000
              >= 5 * finder.result.buyPrice
    /\ (finder.pc = "done" /\ Survivors # {}) =>
         LET lo == CHOOSE v \in Survivors : \A w \in Survivors : quotes[v] <= quotes[w]
             hi == CHOOSE v \in Survivors : \A w \in Survivors : quotes[v] >= quotes[w]
         IN (quotes[hi] - quotes[lo]) * 1000 < 5 * quotes[lo] => ~finder.result.found

C16_Witness ==
    /\ Emitted
    /\ finder.result.buyPrice = 2000
    /\ finder.result.sellPrice = 2050
    /\ finder.result.profitPercentage = 250

\* C17: the finder returns null whenever fewer than 2 venues yield a
\* non-null quote, and on the oracle-validated path also whenever fewer than
\* 2 quotes remain after the oracle validation; a venue that returned null
\* is never the buy or the sell venue.
C17_NeedsTwoQuotes ==
    finder.pc = "done" =>
        /\ ~finder.result.thrown
        /\ Cardinality(Quoted) < 2 => finder.result = NoOpportunity
        /\ (finder.validated /\ Cardinality(Survivors) < 2) =>
             finder.result = NoOpportunity
        /\ finder.result.found =>
             /\ finder.result.buyDex \in Quoted
             /\ finder.result.sellDex \in Quoted

C17_Witness ==
    /\ finder.pc = "done"
    /\ finder.validated
    /\ OracleAvailable
    /\ Cardinality(Quoted) = 3
    /\ Cardinality(Survivors) = 1
    /\ finder.result = NoOpportunity

\* C18: in every emitted opportunity the buy venue carries the lowest and
\* the sell venue the highest price among all surviving quotes (quotes 2000
\* and 2050 give buy = the 2000 venue, sell = the 2050 venue, spread 2.5%).
C18_BuyLowSellHigh ==
    Emitted =>
        /\ finder.result.buyDex \in Survivors
        /\ finder.result.sellDex \in Survivors
        /\ finder.result.buyPrice = quotes[finder.result.buyDex]
        /\ finder.result.sellPrice = quotes[finder.result.sellDex]
        /\ \A v \in Survivors :
             /\ finder.result.buyPrice <= quotes[v]
             /\ finder.result.sellPrice >= quotes[v]

C18_Witness ==
    /\ Emitted
    /\ quotes[1] = 2050 /\ quotes[2] = Null /\ quotes[3] = 2000
    /\ finder.result.buyDex = 3
    /\ finder.result.sellDex = 1
    /\ finder.result.profitPercentage = 250

\* C19 (as stated): when several venues tie at the lowest price the buy
\* venue is the first of them in the enumeration order of dexConfigs, and
\* when several tie at the highest price the sell venue is likewise the
\* first of them in enumeration order.
C19_FirstVenueWinsTie ==
    Emitted =>
        /\ \A v \in Survivors :
             quotes[v] = finder.result.buyPrice => finder.result.buyDex <= v
        /\ \A v \in Survivors :
             quotes[v] = finder.result.sellPrice => finder.result.sellDex <= v

\* C20: on the oracle-validated path with oracle prices for both assets a
\* venue quote is kept if and only if its rate deviates from the oracle
\* cross-rate priceA / priceB by at most 5%; both legs of an opportunity
\* emitted then are within 5% of the oracle rate.
C20_OracleTolerance ==
    (finder.pc = "done" /\ OracleAvailable) =>
        /\ {finder.surviving[i].dex : i \in 1..Len(finder.surviving)}
             = {v \in Quoted : Within5Percent(v)}
        /\ finder.result.found =>
             /\ Within5Percent(finder.result.buyDex)
             /\ Within5Percent(finder.result.sellDex)

C20_Witness ==
    /\ Emitted
    /\ finder.validated
    /\ finder.oracle = <<4000, 2>>
    /\ quotes[1] = 1899 /\ quotes[2] = 2050 /\ quotes[3] = 1900
    /\ finder.result.buyDex = 3
    /\ finder.result.sellDex = 2

\* C21: when the oracle has no price for either asset (no feed, stale feed,
\* failed query) findValidatedArbitrageOpportunity decides on all raw quotes:
\* it returns what findArbitrageOpportunity returns on the same quotes (null,
\* or the same buy venue, sell venue, prices and spread).
C21_NoOracleSameAsPlain ==
    ( /\ finder.pc = "done"
      /\ finder.validated
      /\ (finder.oracle[1] = Null \/ finder.oracle[2] = Null) )
    => finder.result = findArbitrageOpportunity(quotes)

C21_Witness ==
    /\ finder.pc = "done"
    /\ finder.validated
    /\ finder.oracle = <<2000, Null>>
    /\ quotes[1] = 1899 /\ quotes[2] = 2050
    /\ finder.result.found
    /\ finder.result.buyDex = 1
    /\ finder.result.sellDex = 2

----
\* Steps of fetchPrice for the cache key
FetchCallStep(c) == fetches'[c].callNo # fetches[c].callNo

\* The entry under the key of the call that c makes in this step
CallKeyEntry(c) == priceCache[fetches'[c].dexConfig.router]

----
\* The static fallback table as the documentation gives it, 1.0 for a symbol
\* it does not list
TableValue(symbol) ==
    IF symbol = "ETH" THEN 2000000 ELSE IF symbol = "BNB" THEN 300000 ELSE 1000

\* The call was not answered from the cache
Queried == oracleCall.pc = "done" /\ ~oracleCall.fromCache

\* C23: every getPrice call that has left its awaits has returned a positive
\* number (no path ends in a rejection); when the symbol has no feed, when
\* latestRoundData or decimals rejected, and when the feed's answer is not
\* positive, that number is the symbol's value of the fallback table, 1.0
\* for a symbol the table does not have
C23_AlwaysPositivePrice ==
    oracleCall.pc = "done" =>
      /\ oracleCall.result > 0
      /\ ( /\ ~oracleCall.fromCache
           /\ \/ oracleCall.symbol \notin {"ETH", "XYZ"}
              \/ oracleCall.answer <= 0
              \/ oracleCall.decimals = Null )
         => oracleCall.result = TableValue(oracleCall.symbol)

\* latestRoundData of a symbol outside the table rejected; 1.0 was returned
C23_Witness ==
    /\ Queried
    /\ oracleCall.symbol = "XYZ"
    /\ oracleCall.answer = Null
    /\ oracleCall.result = 1000

\* C24 as stated: a feed answer updated more than an hour ago makes getPrice
\* return the fallback table value, and the stale value does not enter the
\* cache
C24_StaleIsFailure ==
    ( /\ Queried
      /\ oracleCall.answer > 0
      /\ oracleCall.decimals # Null
      /\ oracleCall.priceAge > 3600 )
    => /\ oracleCall.result = TableValue(oracleCall.symbol)
       /\ oracleCache[oracleCall.symbol].updatedAt # oracleCall.updatedAt

----
\* A report of calculateArbitrageProfitability has been returned
Reported == profitCall.pc \in {"done", "checked"} /\ profitCall.report # NoReport

\* C25: in every report calculateArbitrageProfitability returns, the net
\* profit is the gross profit less the venue fees, the loan premium and the gas
\* cost, and isProfitable says whether that is greater than 0; an opportunity
\* with well-formed amounts always gets a report, so one whose gas cost
\* exceeds its gross profit has a report that is not profitable
C25_NetProfitIdentity ==
    /\ Reported =>
         /\ profitCall.report.netProfitETH =
              profitCall.report.grossProfitETH
                - (profitCall.report.dexFeesETH + profitCall.report.flashloanFeeETH
                     + profitCall.report.gasCostETH)
         /\ profitCall.report.isProfitable = (profitCall.report.netProfitETH > 0)
         /\ profitCall.report.gasCostETH > profitCall.report.grossProfitETH
              => ~profitCall.report.isProfitable
    /\ (profitCall.pc \in {"done", "checked"} /\ profitCall.o.wellFormed) => Reported

\* 0.4 ETH sold for 5% more at 100 gwei: the gas cost of 0.0482 ETH exceeds
\* the gross profit of 0.02 ETH, and the report says a loss of 0.03096 ETH
C25_Witness ==
    /\ Reported
    /\ profitCall.report.grossProfitETH = 200000
    /\ profitCall.report.gasCostETH = 482000
    /\ profitCall.report.netProfitETH = 0 - 309600
    /\ ~profitCall.report.isProfitable

----
\* C27: of two assessments made in the same state of the RiskManager, the
\* second with a larger position size, a larger slippage estimate (the price
\* impact, a tenth of the opportunity's profit percentage) or a larger gas
\* price and everything else equal, the second never has the lower riskScore
C27_ScoreMonotone ==
    cmp.input \in {"position", "slippage", "gas"}
      => cmp.second.riskScore >= cmp.first.riskScore

\* A position raised above 10 ETH raised the score from 0 to 25
C27_Witness ==
    /\ cmp.input = "position"
    /\ cmp.first.positionSize = 5000 /\ cmp.first.riskScore = 0
    /\ cmp.second.positionSize = 10000 /\ cmp.second.riskScore = 25

----
\* Points the checks add for a factor
FactorPoints(f) ==
    CASE f = "low_profit_margin" -> 30
      [] f = "marginal_profit" -> 15
      [] f = "position_too_large" -> 25
      [] f = "high_slippage" -> 20
      [] f = "high_gas_price" -> 15
      [] f = "daily_loss_limit" -> 40
      [] f = "high_failure_rate" -> 25
      [] OTHER -> 0

RECURSIVE SumPoints(_)
SumPoints(fs) ==
    IF fs = <<>> THEN 0 ELSE FactorPoints(Head(fs).factor) + SumPoints(Tail(fs))

\* The factors the checks of steps 3-8 found: those of a returned assessment
\* without the high_risk_score entry the approval decision may append
ScoredFactors == SelectSeq(asmt.riskFactors, LAMBDA e : e.factor # "high_risk_score")

\* The assessment went through all checks and the final score calculation
FullyScored ==
    /\ asmt.pc = "done"
    /\ ~HasFactor(asmt.riskFactors, "emergency_stop")
    /\ ~HasFactor(asmt.riskFactors, "circuit_breaker")
    /\ ~HasFactor(asmt.riskFactors, "assessment_error")

\* C28 as stated: the final score is the sum of the points of the triggered
\* factors, plus 20 for each critical factor beyond the first and 10 for each
\* high factor beyond the first, capped at 100; a single critical factor adds
\* nothing
C28_PenaltyBeyondFirst ==
    FullyScored =>
      asmt.riskScore =
        Min(100, SumPoints(ScoredFactors)
                   + 20 * Max(0, CountSeverity(ScoredFactors, "critical") - 1)
                   + 10 * Max(0, CountSeverity(ScoredFactors, "high") - 1))

----
\* The projected daily loss of the assessment that a step returns: the loss
\* of the day so far plus the loss the opportunity would make
ProjectedLoss == dailyStats.totalLossETH + Abs(Min(asmt'.netProfitETH, 0))

\* A step that makes assessOpportunityRisk return
AssessEndStep == (AssessCallStep \/ AssessReturnStep) /\ asmt'.pc = "done"

RejectedForDailyLoss(ra) ==
    /\ ~ra.approved
    /\ \E i \in 1..Len(ra.riskFactors) :
         ra.riskFactors[i] = Factor("daily_loss_limit", "critical")

\* C29 as stated: every assessment whose projected daily loss exceeds 5 ETH
\* is rejected with a critical daily_loss_limit factor
C29_AsStated ==
    [][ (AssessEndStep /\ ProjectedLoss > 5000) => RejectedForDailyLoss(asmt') ]_vars

\* C29, amended: every assessment whose projected daily loss exceeds 5 ETH is
\* rejected, and it carries a critical daily_loss_limit factor when it ran
\* through its checks, that is when it returned after the gas price read
C29_DailyLossRejects ==
    [][ /\ (AssessEndStep /\ ProjectedLoss > 5000) => ~asmt'.approved
        /\ (AssessReturnStep /\ ProjectedLoss > 5000) => RejectedForDailyLoss(asmt')
      ]_vars

\* 6 ETH lost in the day: an opportunity that would itself gain 1 ETH is
\* rejected for the daily loss
C29_Witness ==
    /\ asmt.pc = "done"
    /\ asmt.netProfitETH = 1000
    /\ dailyStats.totalLossETH = 6000
    /\ RejectedForDailyLoss(asmt)
    /\ asmt.riskScore = 60

----
\* C30: with DEMO_MODE enabled the bot makes no requestFlashLoan call,
\* whatever the scans find: no call is recorded and no scan is inside
\* executeArbitrage
C30_DemoNeverSubmits ==
    demoMode =>
      /\ submissions = <<>>
      /\ \A s \in ScanSlots : scans[s].pc \notin {"gasprice", "send", "wait"}

\* In demo mode, after three scans, one that found a profitable opportunity
\* ended with the log line and nothing was submitted
C30_Witness ==
    /\ demoMode
    /\ scanCount = 3
    /\ \E s \in ScanSlots : scans[s].pc = "done" /\ scans[s].wouldExecute
    /\ submissions = <<>>

----
\* C33 as stated: while the breaker is open its activation timestamp does not
\* change; a failed result recorded while it is open does not stamp it again
C33_StampOnlyOnOpening ==
    [][(circuitBreakerActive /\ circuitBreakerActive')
         => circuitBreakerActivatedAt' = circuitBreakerActivatedAt]_vars

\* C34: the breaker goes from open to closed only in the step of an
\* assessOpportunityRisk call made with the emergency stop off and 300 s or
\* more after the activation; no recordTradeResult and no resetDailyStats
\* closes it; and circuitBreakerActive is true exactly when
\* circuitBreakerActivatedAt is not null
C34_ClosedOnlyByAssessment ==
    /\ [](circuitBreakerActive <=> circuitBreakerActivatedAt # Null)
    /\ [][(circuitBreakerActive /\ ~circuitBreakerActive')
            => /\ AssessCallStep
               /\ ~emergencyStop
               /\ now - circuitBreakerActivatedAt >= 300000
               /\ dailyStats'.failedTrades = dailyStats.failedTrades
               /\ dailyStats'.executedTrades = dailyStats.executedTrades]_vars

\* Three failures opened the breaker, a success was recorded and the daily
\* reset ran while it was open, and an assessment after the cooldown closed it
C34_Witness ==
    /\ ~circuitBreakerActive
    /\ circuitBreakerActivatedAt = Null
    /\ positionHistory = <<FALSE, FALSE, FALSE, TRUE>>
    /\ dailyStats.lastResetTime = StartTime + 300000
    /\ asmt.pc \in {"gas", "done"}
    /\ asmt.timestamp = StartTime + 300000

\* C36: a recordTradeResult with success = false adds 1 to failedTrades and
\* to consecutiveFailures and leaves totalProfitETH, totalLossETH,
\* netProfitETH and executedTrades as they were; and in every reachable state
\* netProfitETH = totalProfitETH - totalLossETH with neither total negative
C36_FailureTouchesCountersOnly ==
    /\ [](/\ dailyStats.netProfitETH = dailyStats.totalProfitETH - dailyStats.totalLossETH
          /\ dailyStats.totalProfitETH >= 0
          /\ dailyStats.totalLossETH >= 0)
    /\ [][FailedRecordStep =>
            /\ dailyStats'.failedTrades = dailyStats.failedTrades + 1
            /\ dailyStats'.consecutiveFailures = dailyStats.consecutiveFailures + 1
            /\ dailyStats'.totalProfitETH = dailyStats.totalProfitETH
            /\ dailyStats'.totalLossETH = dailyStats.totalLossETH
            /\ dailyStats'.netProfitETH = dailyStats.netProfitETH
            /\ dailyStats'.executedTrades = dailyStats.executedTrades]_vars

\* A gain of 1 ETH and a loss of 3 ETH were recorded, then a failure
C36_Witness ==
    /\ positionHistory = <<TRUE, TRUE, FALSE>>
    /\ dailyStats.totalProfitETH = 1000
    /\ dailyStats.totalLossETH = 3000
    /\ dailyStats.netProfitETH = 0 - 2000
    /\ dailyStats.executedTrades = 2
    /\ dailyStats.failedTrades = 1
    /\ dailyStats.consecutiveFailures = 1

----
\* C35: ArbitrageExecutor.isExecuting is true exactly while one accepted
\* executeArbitrage call is between its acceptance and its return: the flag
\* is set in every state where a call is past the entry checks and in no
\* other, there is never more than one such call, every step in which an
\* accepted call returns clears the flag, and a call turned away with
\* "Execution in progress" or "Cooldown active" leaves the flag,
\* lastExecutionTime and the execution history as they were.
C35_TurnedAway(r) ==
    /\ CallStep(r)
    /\ req'[r].pc = "returned"
    /\ req'[r].result.reason \in {"Execution in progress", "Cooldown active"}

C35_AcceptedReturns(r) ==
    /\ req[r].pc \in AcceptedPc
    /\ req'[r].pc = "returned"

C35_FlagTracksAcceptedCall ==
    /\ [](isExecuting <=> \E r \in Requesters : req[r].pc \in AcceptedPc)
    /\ [](Cardinality({r \in Requesters : req[r].pc \in AcceptedPc}) <= 1)
    /\ [][\A r \in Requesters :
            /\ C35_AcceptedReturns(r) => ~isExecuting'
            /\ C35_TurnedAway(r) =>
                 /\ isExecuting' = isExecuting
                 /\ lastExecutionTime' = lastExecutionTime
                 /\ executionHistory' = executionHistory]_vars

\* One call returned after its transaction failed (flag cleared, outcome
\* recorded), a later call was turned away for the cooldown and a third is
\* in flight with the flag set
C35_Witness ==
    \E r \in Requesters, q \in Requesters :
        /\ req[r].pc = "returned"
        /\ req[r].result.reason = "Cooldown active"
        /\ req[q].pc \in AcceptedPc
        /\ req[q].callNo > req[r].callNo
        /\ isExecuting
        /\ executionHistory = <<FALSE>>

----
\* C37 as stated: the oracleValidated tag is truthful.  Every opportunity
\* returned by findValidatedArbitrageOpportunity with oracleValidated = true
\* had the quotes of both its legs checked against the oracle rate and found
\* within 5% of it; when the oracle had no price for one of the assets and
\* the validation was skipped, the opportunity returned is not tagged.
C37_TagTruthful ==
    (finder.pc = "done" /\ finder.result.found)
    => /\ finder.oracleValidated =>
            /\ OracleAvailable
            /\ Within5Percent(finder.result.buyDex)
            /\ Within5Percent(finder.result.sellDex)
       /\ (finder.validated /\ ~OracleAvailable) => ~finder.oracleValidated

----
\* C40 as stated: the quote cache never serves one venue's quote for another.
\* A fetchPrice call answered from the cache is answered with a quote that a
\* call for the same venue (same name) had cached, also when another venue
\* is configured with the same router address.
C40_NoCrossVenueQuote ==
    [][\A c \in Fetchers :
         (FetchCallStep(c) /\ fetches'[c].hit)
         => cachedDex[fetches'[c].dexConfig.router] = fetches'[c].dexConfig.name]_vars

----
ActiveScanTimers == {i \in 1..Len(scanTimers) : scanTimers[i] # Null}

\* A scan starts: the callback of an interval goes past its isRunning test
ScanStartStep ==
    \E i \in 1..Len(scanTimers) :
        /\ scanTimers[i] # Null
        /\ scanTimers'[i] # Null
        /\ scanTimers'[i] # scanTimers[i]

\* C38 as stated: MultiChainArbitrageBot never has more than one scan loop.
\* After any sequence of start() and stop() calls, a start() that follows a
\* stop() before the old interval's next tick included, at most one scan
\* interval is active; and while the bot is stopped no scan starts.
C38_OneScanLoop ==
    /\ [](Cardinality(ActiveScanTimers) <= 1)
    /\ [][ScanStartStep => isRunning]_vars

----
\* A transaction that ran executeOperation: a flash loan requested from the
\* pool
FlashLoanStep ==
    /\ txCount' # txCount
    /\ lastTx'.fn \in {"requestFlashLoan", "executeOperation"}

\* What the two swaps of the loan in lastTx' return over the amount lent
RoundTripGain ==
    (IF lastTx'.loan.outs[2] = Null THEN 0 ELSE lastTx'.loan.outs[2])
      - lastTx'.loan.amount

\* C31 as stated: the settlement contract's no-loss guarantee.  A flash loan
\* whose two swaps return a profit in tokenA that does not cover the loan
\* premium, or does not reach the requested minProfit, reverts; and an
\* executeOperation that does not revert leaves the contract, after the
\* repayment of amount + premium, with no less tokenA than it held before
\* the loan.
C31_NoLossGuarantee ==
    [][FlashLoanStep =>
         /\ (RoundTripGain < lastTx'.loan.premium
               \/ RoundTripGain < lastTx'.loan.params.minProfit)
            => lastTx'.reverted
         /\ ~lastTx'.reverted
            => tokenBalance'[lastTx'.loan.params.tokenA]
                 >= tokenBalance[lastTx'.loan.params.tokenA]]_vars

----
\* The contract's storage and balances are as they were
ContractUntouched ==
    /\ dexInfo' = dexInfo
    /\ activeDEXs' = activeDEXs
    /\ priceFeeds' = priceFeeds
    /\ tokenBalance' = tokenBalance
    /\ ethBalance' = ethBalance

\* C32: only the owner can call addDEX, removeDEX, setPriceFeed,
\* withdrawToken, withdrawETH and requestFlashLoan.  A call of one of them
\* by any other account reverts with "Ownable: caller is not the owner" and
\* leaves the DEX registry, the price feeds and the balances unchanged.
C32_OnlyOwner ==
    [][ ( /\ txCount' # txCount
          /\ lastTx'.fn \in {"addDEX", "removeDEX", "setPriceFeed", "withdrawToken",
                             "withdrawETH", "requestFlashLoan"}
          /\ lastTx'.sender # "owner" )
        => /\ lastTx'.reverted
           /\ lastTx'.reason = "Ownable: caller is not the owner"
           /\ ContractUntouched ]_vars

\* The contract holds ether and tokens, and a stranger's withdrawETH was
\* turned away
C32_Witness ==
    /\ lastTx.fn = "withdrawETH"
    /\ lastTx.sender = "stranger"
    /\ lastTx.reverted
    /\ ethBalance = 1
    /\ tokenBalance["WETH"] = 5

----
ActiveRouters == {r \in Routers \cup {Zero} : dexInfo[r].isActive}

ListedRouters == {activeDEXs[i] : i \in 1..Len(activeDEXs)}

\* C39: the DEX registry is consistent.  After any sequence of addDEX and
\* removeDEX calls activeDEXs has no duplicates and holds exactly the routers
\* whose dexInfo entry is active; addDEX of a router that is active or zero
\* reverts, removeDEX of a router that is not active reverts, and a flash
\* loan with a leg whose router is not active reverts.
C39_Registry ==
    /\ [](/\ Cardinality(ListedRouters) = Len(activeDEXs)
          /\ ListedRouters = ActiveRouters)
    /\ [][ /\ ( /\ txCount' # txCount /\ lastTx'.fn = "addDEX"
                /\ (lastTx'.router = "0x0" \/ dexInfo[lastTx'.router].isActive) )
              => lastTx'.reverted /\ ContractUntouched
           /\ ( /\ txCount' # txCount /\ lastTx'.fn = "removeDEX"
                /\ ~dexInfo[lastTx'.router].isActive )
              => lastTx'.reverted /\ ContractUntouched
           /\ ( /\ txCount' # txCount /\ lastTx'.fn = "requestFlashLoan"
                /\ \E i \in 1..Len(lastTx'.loan.params.dexRouters) :
                      ~dexInfo[lastTx'.loan.params.dexRouters[i]].isActive )
              => lastTx'.reverted /\ ContractUntouched ]_vars

\* The first router of the constructor was removed, which moved the last one
\* into its place, and added again; a second addDEX of it was turned away
C39_Witness ==
    /\ activeDEXs = <<"Balancer", "UniV3", "Sushi", "UniV2">>
    /\ ActiveRouters = {"UniV2", "UniV3", "Sushi", "Balancer"}
    /\ lastTx.fn = "addDEX"
    /\ lastTx.router = "UniV2"
    /\ lastTx.sender = "owner"
    /\ lastTx.reverted
    /\ lastTx.reason = "DEX already exists"

====
